---- MODULE Spec2Model ----
(***************************************************************************)
(* A model of the TURN core of Mysticeti: the STUN message codec           *)
(* (turn_node/src/payload/codec.rs, error.rs, lib/stun/src/attribute.rs),  *)
(* the Refresh and ChannelBind handlers (turn_node/src/remux/refresh.rs,   *)
(* turn/src/proto/channel_bind.rs) and the worker loop                     *)
(* (turn_node/src/server.rs).                                              *)
(*                                                                         *)
(* Bytes are integers 0..255, buffers are sequences of bytes.  Offsets are *)
(* the 0-based offsets of the Rust code; a byte at offset o is buf[o + 1]. *)
(***************************************************************************)
EXTENDS Integers, Sequences, FiniteSets, TLC

\* ------------------------------------------------------------------------
\* Bounds of the model
\* ------------------------------------------------------------------------

\* how many datagrams the clients put on the socket in one behaviour
MaxDatagrams == 2

\* how many times the clock advances in one behaviour
MaxTicks == 1

\* ------------------------------------------------------------------------
\* Wire primitives (util.rs is not part of the sources; see the spec, 4.A)
\* ------------------------------------------------------------------------

None == "None"

\* sums over a sequence, the second with the weights i, i + 1, ... ; both halve
\* the sequence, which keeps the evaluation shallow on long buffers

RECURSIVE SeqSum(_)
SeqSum(s) ==
    IF s = <<>> THEN 0
    ELSE IF Len(s) = 1 THEN s[1]
    ELSE LET h == Len(s) \div 2
         IN  SeqSum(SubSeq(s, 1, h)) + SeqSum(SubSeq(s, h + 1, Len(s)))

RECURSIVE SeqWSum(_, _)
SeqWSum(s, i) ==
    IF s = <<>> THEN 0
    ELSE IF Len(s) = 1 THEN i * s[1]
    ELSE LET h == Len(s) \div 2
         IN  SeqWSum(SubSeq(s, 1, h), i) + SeqWSum(SubSeq(s, h + 1, Len(s)), i + h)

RECURSIVE Concat(_)
Concat(ss) == IF ss = <<>> THEN <<>> ELSE Head(ss) \o Concat(Tail(ss))

Zeros(n) == [i \in 1..n |-> 0]

\* bitwise exclusive or of two naturals
RECURSIVE Xor(_, _)
Xor(a, b) ==
    IF a = 0 THEN b
    ELSE IF b = 0 THEN a
    ELSE ((a + b) % 2) + 2 * Xor(a \div 2, b \div 2)

\* the bytes buf[from..to) of the Rust code
Slice(buf, from, to) == SubSeq(buf, from + 1, to)

u16_be(n) == << (n \div 256) % 256, n % 256 >>

u32_be(n) == << (n \div 16777216) % 256, (n \div 65536) % 256, (n \div 256) % 256, n % 256 >>

\* util::as_u16 / util::as_u32: big-endian decode of the first bytes.  A u32
\* of 2^31 or more is held as its two's-complement counterpart (n - 2^32), so
\* that every 4-byte value has a representation; u32_be inverts it.
as_u16(b) == b[1] * 256 + b[2]

as_u32(b) ==
    ((((IF b[1] < 128 THEN b[1] ELSE b[1] - 256) * 256 + b[2]) * 256 + b[3]) * 256) + b[4]

\* util::pad_size
pad_size(n) == (4 - (n % 4)) % 4

\* the magic cookie 0x2112A442 as it stands on the wire
COOKIE == <<33, 18, 164, 66>>

\* util::long_key: MD5(a ":" b ":" c), abstracted to a one-byte digest that
\* depends on every byte of its three arguments and on their positions
long_key(a, b, c) == (SeqWSum(a \o <<58>> \o b \o <<58>> \o c, 1) + 7) % 251

\* util::hmac_sha1: a 20-byte digest of the concatenated slices under the key.
\* The digest changes whenever the key, the length or a single byte changes.
hmac_sha1(key, slices) ==
    LET data == Concat(slices)
    IN  << key % 256, Len(data) % 256, SeqSum(data) % 256, SeqWSum(data, 1) % 256 >>
        \o Zeros(16)

\* util::fingerprint: CRC32(buf) XOR 0x5354554e, abstracted to a 32-bit checksum
fingerprint(buf) == Xor(SeqWSum(buf, 1) * 31 + Len(buf), 1398035790)

\* std::str::from_utf8 on the bytes the model draws: ASCII is accepted, a byte
\* with the high bit set (never part of a complete sequence here) is rejected
IsUtf8(b) == \A i \in 1..Len(b) : b[i] < 128

\* ------------------------------------------------------------------------
\* Message kinds (payload/mod.rs is not part of the sources; codes per spec 6)
\* ------------------------------------------------------------------------

KindCode ==
    [ BindingRequest |-> 1, BindingResponse |-> 257, BindingError |-> 273,
      AllocateRequest |-> 3, AllocateResponse |-> 259, AllocateError |-> 275,
      RefreshRequest |-> 4, RefreshResponse |-> 260, RefreshError |-> 276,
      CreatePermissionRequest |-> 8, CreatePermissionResponse |-> 264,
      CreatePermissionError |-> 280,
      ChannelBindRequest |-> 9, ChannelBindResponse |-> 265, ChannelBindError |-> 281,
      SendIndication |-> 22, DataIndication |-> 23 ]

Kinds == DOMAIN KindCode

\* Kind::try_from(u16).unwrap_or(Kind::Unknown)
KindTryFrom(code) ==
    IF \E k \in Kinds : KindCode[k] = code
    THEN CHOOSE k \in Kinds : KindCode[k] = code
    ELSE "Unknown"

\* ------------------------------------------------------------------------
\* Attributes (lib/stun/src/attribute.rs)
\* ------------------------------------------------------------------------

AttrCode ==
    [ UserName |-> 6, Data |-> 19, Realm |-> 20, Nonce |-> 21,
      XorPeerAddress |-> 18, XorRelayedAddress |-> 22, XorMappedAddress |-> 32,
      MappedAddress |-> 1, ResponseOrigin |-> 32811, Software |-> 32802,
      MessageIntegrity |-> 8, ErrorAttrKind |-> 9, Lifetime |-> 13,
      ReqeestedTransport |-> 25, Fingerprint |-> 32808, ChannelNumber |-> 12 ]

AttrKinds == DOMAIN AttrCode

\* AttrKind::try_from(u16)
AttrTryFrom(code) ==
    IF \E k \in AttrKinds : AttrCode[k] = code
    THEN CHOOSE k \in AttrKinds : AttrCode[k] = code
    ELSE None

\* A Property is [tag |-> variant, val |-> payload]; the variant of an
\* ErrorAttrKind attribute is ErrorCode.
Prop(tag, val) == [tag |-> tag, val |-> val]

\* Property::kind
PropertyKind(p) == IF p.tag = "ErrorCode" THEN "ErrorAttrKind" ELSE p.tag

TextKinds == {"UserName", "Realm", "Nonce", "Software"}
XorAddrKinds == {"XorPeerAddress", "XorRelayedAddress", "XorMappedAddress"}
PlainAddrKinds == {"MappedAddress", "ResponseOrigin"}

\* Addr::as_bytes for an IPv4 address [port, ip]: reserved, family, port, ip;
\* the xor form mixes the port with the cookie's high half and the ip with the
\* cookie (spec 3)
AddrAsBytes(a, xor) ==
    LET port == u16_be(a.port)
    IN  IF xor
        THEN <<0, 1, Xor(port[1], COOKIE[1]), Xor(port[2], COOKIE[2])>>
             \o [i \in 1..4 |-> Xor(a.ip[i], COOKIE[i])]
        ELSE <<0, 1>> \o port \o a.ip

\* Addr::try_from: an IPv4 value has 8 bytes and family 0x01
AddrTryFrom(v, xor) ==
    IF Len(v) < 8 \/ v[2] # 1 THEN [status |-> "err"]
    ELSE IF xor
    THEN [status |-> "ok",
          addr |-> [port |-> Xor(v[3], COOKIE[1]) * 256 + Xor(v[4], COOKIE[2]),
                    ip |-> [i \in 1..4 |-> Xor(v[4 + i], COOKIE[i])]]]
    ELSE [status |-> "ok",
          addr |-> [port |-> v[3] * 256 + v[4], ip |-> SubSeq(v, 5, 8)]]

\* Error::as_bytes
ErrorAsBytes(e) == <<0, 0>> \o u16_be(e.code) \o e.message

\* TryFrom<&[u8]> for Error.  ensure!(len < 6) rejects every value with a
\* reason text; a shorter value is rejected for its zero reserved field or
\* panics on a slice past its end (packet[..2], packet[2..4] or packet[6..]).
ErrorTryFrom(packet) ==
    IF ~(Len(packet) < 6) THEN [status |-> "err"]
    ELSE IF Len(packet) < 2 THEN [status |-> "panic"]
    ELSE IF ~(as_u16(SubSeq(packet, 1, 2)) # 0) THEN [status |-> "err"]
    ELSE [status |-> "panic"]

\* Property::into_bytes with the text of a Software attribute left out
IntoBytes_nosoftware(p) ==
    CASE p.tag \in TextKinds \ {"Software"} -> p.val
      [] p.tag = "Software" -> <<>>
      [] p.tag \in XorAddrKinds -> AddrAsBytes(p.val, TRUE)
      [] p.tag \in PlainAddrKinds -> AddrAsBytes(p.val, FALSE)
      [] p.tag = "ErrorCode" -> ErrorAsBytes(p.val)
      [] p.tag = "ReqeestedTransport" -> <<17>>
      [] p.tag = "Data" -> p.val
      [] p.tag = "ChannelNumber" -> u16_be(p.val)
      [] p.tag = "Lifetime" -> u32_be(p.val)
      [] p.tag = "MessageIntegrity" -> <<>>
      [] p.tag = "Fingerprint" -> <<>>

\* Property::into_bytes: the attribute body appended to the buffer
IntoBytes(p) ==
    CASE p.tag \in TextKinds -> p.val
      [] p.tag \in XorAddrKinds -> AddrAsBytes(p.val, TRUE)
      [] p.tag \in PlainAddrKinds -> AddrAsBytes(p.val, FALSE)
      [] p.tag = "ErrorCode" -> ErrorAsBytes(p.val)
      [] p.tag = "ReqeestedTransport" -> <<17>>
      [] p.tag = "Data" -> p.val
      [] p.tag = "ChannelNumber" -> u16_be(p.val)
      [] p.tag = "Lifetime" -> u32_be(p.val)
      [] p.tag = "MessageIntegrity" -> <<>>
      [] p.tag = "Fingerprint" -> <<>>

\* AttrKind::from: [status |-> "ok", p |-> Property], "err" or "panic"
AttrFrom(kind, v) ==
    CASE kind \in TextKinds ->
            IF IsUtf8(v) THEN [status |-> "ok", p |-> Prop(kind, v)]
            ELSE [status |-> "err"]
      [] kind \in XorAddrKinds \cup PlainAddrKinds ->
            LET a == AddrTryFrom(v, kind \in XorAddrKinds)
            IN  IF a.status = "ok" THEN [status |-> "ok", p |-> Prop(kind, a.addr)]
                ELSE [status |-> "err"]
      [] kind = "Fingerprint" ->
            IF Len(v) < 4 THEN [status |-> "panic"]
            ELSE [status |-> "ok", p |-> Prop(kind, as_u32(v))]
      [] kind = "ChannelNumber" ->
            IF Len(v) < 2 THEN [status |-> "panic"]
            ELSE [status |-> "ok", p |-> Prop(kind, as_u16(v))]
      [] kind = "Lifetime" ->
            IF Len(v) < 4 THEN [status |-> "panic"]
            ELSE [status |-> "ok", p |-> Prop(kind, as_u32(v))]
      [] kind = "MessageIntegrity" -> [status |-> "ok", p |-> Prop(kind, v)]
      [] kind = "ErrorAttrKind" -> ErrorTryFrom(v)
      [] kind = "ReqeestedTransport" -> [status |-> "ok", p |-> Prop(kind, <<>>)]
      [] kind = "Data" -> [status |-> "ok", p |-> Prop(kind, v)]

\* ------------------------------------------------------------------------
\* Message codec (turn_node/src/payload/codec.rs)
\* ------------------------------------------------------------------------

\* Auth is the triple handed to long_key; NoAuth stands for Option::None
NoAuth == <<>>

\* Message is [kind, attributes, buffer, token, block]; attributes is a
\* sequence of <<AttrKind, Property>>

UNKNOWN_PAYLOAD ==
    [kind |-> "Unknown", attributes |-> <<>>, buffer |-> <<>>, token |-> <<>>, block |-> 0]

\* Message::get (payload/mod.rs, not part of the sources): the first
\* attribute of the kind; MessageHas tells Some from None
MessageHas(m, kind) == \E i \in 1..Len(m.attributes) : m.attributes[i][1] = kind

MessageGet(m, kind) ==
    LET i == CHOOSE i \in 1..Len(m.attributes) :
                /\ m.attributes[i][1] = kind
                /\ \A j \in 1..(i - 1) : m.attributes[j][1] # kind
    IN  m.attributes[i][2]

\* The attribute walk with `block` following every attribute header, the
\* headers after MESSAGE-INTEGRITY included (find_block left out)
RECURSIVE DecodeWalk_moving(_, _, _, _, _)
DecodeWalk_moving(buffer, offset, attributes, find_block, block) ==
    LET count_size == Len(buffer)
        done(a, b) == [status |-> "ok", attributes |-> a, block |-> b]
    IN  IF offset > count_size THEN [status |-> "panic"]
        ELSE IF count_size - offset < 4 THEN done(attributes, block)
        ELSE LET key == as_u16(Slice(buffer, offset, offset + 2))
                 block2 == offset % 65536
                 size == as_u16(Slice(buffer, offset + 2, offset + 4))
                 off4 == offset + 4
             IN  IF count_size - off4 < size THEN done(attributes, block2)
                 ELSE LET value == Slice(buffer, off4, off4 + size)
                          next == IF size > 0 THEN off4 + size + pad_size(size) ELSE off4
                          dyn_attribute == AttrTryFrom(key)
                          r == AttrFrom(dyn_attribute, value)
                      IN  IF dyn_attribute = None
                          THEN DecodeWalk_moving(buffer, next, attributes, FALSE, block2)
                          ELSE CASE r.status = "panic" -> [status |-> "panic"]
                                 [] r.status = "ok" ->
                                      DecodeWalk_moving(buffer, next,
                                          Append(attributes, <<dyn_attribute, r.p>>),
                                          FALSE, block2)
                                 [] OTHER ->
                                      DecodeWalk_moving(buffer, next, attributes,
                                                        FALSE, block2)

\* The attribute walk of decode_message (the loop, lines 52-106), from byte
\* offset `offset` on.  `offset += size + psize` may pass the end of the
\* buffer; the next `count_size - offset` then underflows (a panic in a
\* checked build, an out-of-range index after the wrap otherwise).
RECURSIVE DecodeWalk(_, _, _, _, _)
DecodeWalk(buffer, offset, attributes, find_block, block) ==
    LET count_size == Len(buffer)
        done(a, b) == [status |-> "ok", attributes |-> a, block |-> b]
    IN  IF offset > count_size THEN [status |-> "panic"]
        ELSE IF count_size - offset < 4 THEN done(attributes, block)
        ELSE LET key == as_u16(Slice(buffer, offset, offset + 2))
                 block2 == IF ~find_block THEN offset % 65536 ELSE block
                 find2 == find_block \/ key = AttrCode.MessageIntegrity
                 size == as_u16(Slice(buffer, offset + 2, offset + 4))
                 off4 == offset + 4
             IN  IF count_size - off4 < size THEN done(attributes, block2)
                 ELSE LET psize == pad_size(size)
                          value == Slice(buffer, off4, off4 + size)
                          next == IF size > 0 THEN off4 + size + psize ELSE off4
                          dyn_attribute == AttrTryFrom(key)
                      IN  IF dyn_attribute = None
                          THEN DecodeWalk(buffer, next, attributes, find2, block2)
                          ELSE LET r == AttrFrom(dyn_attribute, value)
                               IN  CASE r.status = "panic" -> [status |-> "panic"]
                                     [] r.status = "ok" ->
                                          DecodeWalk(buffer, next,
                                              Append(attributes, <<dyn_attribute, r.p>>),
                                              find2, block2)
                                     [] OTHER ->
                                          DecodeWalk(buffer, next, attributes, find2, block2)

\* decode_message: [status |-> "ok", msg |-> Message], "err" or "panic"
decode_message(buffer) ==
    IF ~(Len(buffer) >= 20) THEN [status |-> "err"]
    ELSE LET kind == KindTryFrom(as_u16(Slice(buffer, 0, 2)))
         IN  IF kind = "Unknown" THEN [status |-> "ok", msg |-> UNKNOWN_PAYLOAD]
             ELSE LET size == as_u16(Slice(buffer, 2, 4))
                  IN  IF Slice(buffer, 4, 8) # COOKIE THEN [status |-> "err"]
                      ELSE IF ~(Len(buffer) >= size + 20) THEN [status |-> "err"]
                      ELSE LET w == DecodeWalk(buffer, 20, <<>>, FALSE, 0)
                           IN  IF w.status = "panic" THEN [status |-> "panic"]
                               ELSE [status |-> "ok",
                                     msg |-> [kind |-> kind,
                                              block |-> w.block,
                                              token |-> Slice(buffer, 8, 20),
                                              buffer |-> buffer,
                                              attributes |-> w.attributes]]

\* encoder_integrity with the digest taken before the length field is
\* rewritten to include MESSAGE-INTEGRITY
encoder_integrity_stale(buffer, auth) ==
    LET buffer_size == (Len(buffer) + 4) % 65536
        key == long_key(auth[1], auth[2], auth[3])
        property_buf == hmac_sha1(key, <<buffer>>)
        b2 == buffer \o u16_be(AttrCode.MessageIntegrity) \o u16_be(20) \o property_buf
        b3 == Slice(b2, 0, 2) \o u16_be((buffer_size + 8) % 65536) \o Slice(b2, 4, Len(b2))
        b4 == b3 \o u16_be(AttrCode.Fingerprint) \o u16_be(4)
    IN  b4 \o u32_be(fingerprint(b4))

\* encoder_integrity: MESSAGE-INTEGRITY over the buffer with the length field
\* set to include it, then FINGERPRINT over the buffer with the length field
\* set to include both
encoder_integrity(buffer, auth) ==
    LET buffer_size == (Len(buffer) + 4) % 65536
        b1 == Slice(buffer, 0, 2) \o u16_be(buffer_size) \o Slice(buffer, 4, Len(buffer))
        key == long_key(auth[1], auth[2], auth[3])
        property_buf == hmac_sha1(key, <<b1>>)
        b2 == b1 \o u16_be(AttrCode.MessageIntegrity) \o u16_be(20) \o property_buf
        b3 == Slice(b2, 0, 2) \o u16_be((buffer_size + 8) % 65536) \o Slice(b2, 4, Len(b2))
        b4 == b3 \o u16_be(AttrCode.Fingerprint) \o u16_be(4)
    IN  b4 \o u32_be(fingerprint(b4))

\* one attribute as encode_message writes it: kind, unpadded length, body, padding
EncodeAttribute(kv) ==
    LET body == IntoBytes(kv[2])
        size == Len(body)
    IN  u16_be(AttrCode[kv[1]]) \o u16_be(size % 65536) \o body \o Zeros(pad_size(size))

RECURSIVE EncodeAttributes(_)
EncodeAttributes(attributes) ==
    IF attributes = <<>> THEN <<>>
    ELSE EncodeAttribute(Head(attributes)) \o EncodeAttributes(Tail(attributes))

\* encode_message: the bytes left in the write buffer, which is reset first
\* (buf.set_len(0)).  The caller never passes Kind::Unknown (assert_ne!).
encode_message(message, auth) ==
    LET body == EncodeAttributes(message.attributes)
        attr_size == Len(body) % 65536
        buf == u16_be(KindCode[message.kind]) \o u16_be(attr_size) \o COOKIE
               \o message.token \o body
    IN  IF auth # NoAuth THEN encoder_integrity(buf, auth) ELSE buf

\* BytesMut::set_len with the length left as it was
set_len_kept(buf, len) == buf

\* BytesMut::set_len: the first `len` bytes stay in the buffer
set_len(buf, len) == SubSeq(buf, 1, len)

\* encode_message on a write buffer that holds `buf` when it is called: the
\* buffer is reset, header and attributes are put, the length field is set
\* from the length of the buffer, then encoder_integrity appends to it
encode_into(buf, message, auth) ==
    LET b0 == set_len(buf, 0) \o u16_be(KindCode[message.kind]) \o u16_be(0)
              \o COOKIE \o message.token \o EncodeAttributes(message.attributes)
        attr_size == (Len(b0) - 20) % 65536
        b1 == Slice(b0, 0, 2) \o u16_be(attr_size) \o Slice(b0, 4, Len(b0))
    IN  IF auth # NoAuth THEN encoder_integrity(b1, auth) ELSE b1

\* assert_integrity with the comparison of the two digests left out
assert_integrity_unchecked(payload, auth) ==
    IF ~(payload.buffer # <<>>) THEN "panic"
    ELSE IF ~(payload.block > 20) THEN "panic"
    ELSE IF ~MessageHas(payload, "MessageIntegrity") THEN "err"
    ELSE IF MessageGet(payload, "MessageIntegrity").tag = "MessageIntegrity"
         THEN "true" ELSE "false"

\* assert_integrity: "true", "false", "err" (no MESSAGE-INTEGRITY attribute)
\* or "panic" (one of the two assertions fails)
assert_integrity(payload, auth) ==
    IF ~(payload.buffer # <<>>) THEN "panic"
    ELSE IF ~(payload.block > 20) THEN "panic"
    ELSE IF ~MessageHas(payload, "MessageIntegrity") THEN "err"
    ELSE LET integrity == MessageGet(payload, "MessageIntegrity")
         IN  LET size_buf == u16_be((payload.block + 4) % 65536)
                      body == << Slice(payload.buffer, 0, 2), size_buf,
                                 Slice(payload.buffer, 4, payload.block) >>
                      key == long_key(auth[1], auth[2], auth[3])
                      property_buf == hmac_sha1(key, body)
             IN  IF integrity.tag = "MessageIntegrity" /\ property_buf = integrity.val
                 THEN "true" ELSE "false"

\* ------------------------------------------------------------------------
\* Error kinds (turn_node/src/payload/error.rs)
\* ------------------------------------------------------------------------

\* ErrKind, #[repr(u16)]: the discriminants 0x0300 .. 0x0508
ErrKindCode ==
    [ TryAlternate |-> 768,
      BadRequest |-> 1024,
      Unauthorized |-> 1025,
      Forbidden |-> 1027,
      RequestTimedout |-> 1032,
      UnknownAttribute |-> 1056,
      AllocationMismatch |-> 1079,
      StaleNonce |-> 1080,
      AddressFamilyNotSupported |-> 1088,
      WrongCredentials |-> 1089,
      UnsupportedTransportAddress |-> 1090,
      AllocationQuotaReached |-> 1158,
      ServerError |-> 1280,
      InsufficientCapacity |-> 1288 ]

\* Into<&'static str> for ErrKind: the reason text, as ASCII
ErrKindText ==
    [ TryAlternate |-> <<84, 114, 121, 32, 65, 108, 116, 101, 114, 110, 97, 116, 101>>,
      BadRequest |-> <<66, 97, 100, 32, 82, 101, 113, 117, 101, 115, 116>>,
      Unauthorized |-> <<85, 110, 97, 117, 116, 104, 111, 114, 105, 122, 101, 100>>,
      Forbidden |-> <<70, 111, 114, 98, 105, 100, 100, 101, 110>>,
      RequestTimedout |-> <<82, 101, 113, 117, 101, 115, 116, 32, 84, 105, 109, 101, 100,
                            32, 111, 117, 116>>,
      UnknownAttribute |-> <<85, 110, 107, 110, 111, 119, 110, 32, 65, 116, 116, 114, 105,
                             98, 117, 116, 101>>,
      AllocationMismatch |-> <<65, 108, 108, 111, 99, 97, 116, 105, 111, 110, 32, 77, 105,
                               115, 109, 97, 116, 99, 104>>,
      StaleNonce |-> <<83, 116, 97, 108, 101, 32, 78, 111, 110, 99, 101>>,
      AddressFamilyNotSupported |-> <<65, 100, 100, 114, 101, 115, 115, 32, 70, 97, 109,
                                      105, 108, 121, 32, 110, 111, 116, 32, 83, 117, 112,
                                      112, 111, 114, 116, 101, 100>>,
      WrongCredentials |-> <<87, 114, 111, 110, 103, 32, 67, 114, 101, 100, 101, 110, 116,
                             105, 97, 108, 115>>,
      UnsupportedTransportAddress |-> <<85, 110, 115, 117, 112, 112, 111, 114, 116, 101,
                                        100, 32, 84, 114, 97, 110, 115, 112, 111, 114, 116,
                                        32, 65, 100, 100, 114, 101, 115, 115>>,
      AllocationQuotaReached |-> <<65, 108, 108, 111, 99, 97, 116, 105, 111, 110, 32, 81,
                                   117, 111, 116, 97, 32, 82, 101, 97, 99, 104, 101, 100>>,
      ServerError |-> <<83, 101, 114, 118, 101, 114, 32, 69, 114, 114, 111, 114>>,
      InsufficientCapacity |-> <<73, 110, 115, 117, 102, 102, 105, 99, 105, 101, 110, 116,
                                 32, 67, 97, 112, 97, 99, 105, 116, 121>> ]

ErrKinds == DOMAIN ErrKindCode

\* Error::from(ErrKind)
ErrorFrom(e) == [code |-> ErrKindCode[e], message |-> ErrKindText[e]]

\* ------------------------------------------------------------------------
\* State
\* ------------------------------------------------------------------------

VARIABLES
    codec,      \* the codec under test: one message taken through encode,
                \* byte mutation, decode and verify; in the specifications of
                \* the RTMP ingest, the connection under test (its codec,
                \* its session or its socket)
    now,        \* the clock, in seconds
    nonces,     \* nonce ledger: client -> [nonce, expires]
    allocs,     \* relay state: client -> allocation
    socket,     \* datagrams received by the UDP socket and not yet read
    received,   \* how many datagrams the workers have read (arrival numbers)
    sentCount,  \* how many datagrams the clients have sent
    workers     \* worker -> [pc, addr, msg, arrival, resp, writer, fresh, mutated]:
                \* msg is the decoded request (a view of the read buffer), resp
                \* the response being sent, writer the write buffer; arrival,
                \* fresh (the request's nonce was fresh when it was read) and
                \* mutated (the request changed the relay state) record what
                \* happened to the request

vars == <<codec, now, nonces, allocs, socket, received, sentCount, workers>>

relayVars == <<now, nonces, allocs, socket, received, sentCount, workers>>

\* ------------------------------------------------------------------------
\* The codec as a state machine
\* ------------------------------------------------------------------------

\* longest attribute list of a drawn message
MaxAttrs == 2

T0 == Zeros(12)

USER == <<117>>
OTHER_USER == <<120>>
PASSWORD == <<112>>
WRONG_PASSWORD == <<113>>
REALM == <<101, 120, 97, 109, 112, 108, 101>>

PEER1 == [port |-> 7777, ip |-> <<9, 9, 9, 9>>]
PEER2 == [port |-> 7777, ip |-> <<8, 8, 8, 8>>]
PEER3 == [port |-> 7778, ip |-> <<9, 9, 9, 9>>]

Attr(kind, val) == <<kind, Prop(IF kind = "ErrorAttrKind" THEN "ErrorCode" ELSE kind, val)>>

\* the attributes the codec specification draws its messages from
AttrPool ==
    << Attr("UserName", USER),
       Attr("Lifetime", 600),
       Attr("XorPeerAddress", PEER1),
       Attr("ErrorAttrKind", ErrorFrom("Unauthorized")),
       Attr("Data", <<222, 173, 190>>),
       Attr("ChannelNumber", 16384) >>

\* the attribute lists of at most n pool entries, in pool order
RECURSIVE AttrLists(_, _)
AttrLists(from, n) ==
    IF n = 0 \/ from > Len(AttrPool) THEN { <<>> }
    ELSE AttrLists(from + 1, n)
         \cup { <<AttrPool[from]>> \o rest : rest \in AttrLists(from + 1, n - 1) }

CodecKinds == {"RefreshResponse", "ChannelBindError"}

CodecMessages ==
    [kind : CodecKinds, token : {T0}, attributes : AttrLists(1, MaxAttrs)]

CodecAuths == { <<USER, PASSWORD, REALM>>, <<OTHER_USER, WRONG_PASSWORD, REALM>> }

\* the values a mutation writes over a byte that holds `old`
MutValues(old) == {0, 8, 255, (old + 1) % 256} \ {old}

NoDecode == [status |-> "none"]

DrawCodec ==
    /\ codec \in [pc : {"start"}, m : CodecMessages, auth : CodecAuths \cup {NoAuth},
                  buf : {<<>>}, mut : {<<>>}, dec : {NoDecode}, ver : {"none"}]

\* encode_message(m, buf, auth)
CodecEncode ==
    /\ codec.pc = "start"
    /\ codec' = [codec EXCEPT !.pc = "encoded",
                              !.buf = encode_message(codec.m, codec.auth)]

\* one byte of the encoded buffer is changed in transit
CodecMutate ==
    /\ codec.pc = "encoded"
    /\ codec.mut = <<>>
    /\ codec.auth # NoAuth
    /\ \E i \in 1..Len(codec.buf) : \E v \in MutValues(codec.buf[i]) :
          codec' = [codec EXCEPT !.buf = [codec.buf EXCEPT ![i] = v],
                                 !.mut = <<[pos |-> i - 1, old |-> codec.buf[i], new |-> v]>>]

\* decode_message(buf)
CodecDecode ==
    /\ codec.pc = "encoded"
    /\ codec' = [codec EXCEPT !.pc = "decoded", !.dec = decode_message(codec.buf)]

\* assert_integrity(message, auth) on a decoded message
CodecVerify ==
    /\ codec.pc = "decoded"
    /\ codec.dec.status = "ok"
    /\ codec.auth # NoAuth
    /\ codec' = [codec EXCEPT !.pc = "verified",
                              !.ver = assert_integrity(codec.dec.msg, codec.auth)]

NextCodec ==
    \/ CodecEncode /\ UNCHANGED relayVars
    \/ CodecMutate /\ UNCHANGED relayVars
    \/ CodecDecode /\ UNCHANGED relayVars
    \/ CodecVerify /\ UNCHANGED relayVars

\* ------------------------------------------------------------------------
\* Relay state (state.rs and config.rs are not part of the sources; spec 3,
\* 4.E and 6)
\* ------------------------------------------------------------------------

\* the configuration handed to every worker: the defaults of the spec, with
\* nonce_ttl set to ten minutes and a pool of two relay ports
Conf ==
    [ realm |-> REALM, default_lifetime |-> 600, max_lifetime |-> 3600,
      nonce_ttl |-> 600, permission_ttl |-> 300, channel_ttl |-> 600,
      channel_quiet |-> 300, ports |-> {49152, 49153} ]

CLIENT1 == [port |-> 5000, ip |-> <<1, 2, 3, 4>>]

Clients == {CLIENT1}

NoAlloc ==
    [live |-> FALSE, username |-> <<>>, port |-> 0, expires |-> 0,
     permissions |-> {}, channels |-> {}]

NoNonce == [nonce |-> <<>>, expires |-> 0, serial |-> 0]

\* a freshly minted nonce; the serial stands for the random draw
MintNonce(k) == <<110, 111, 110, 48 + k>>

\* check_nonce: strict equality with the ledger entry, which is unexpired
check_nonce(ledger, t, addr, nonce) ==
    /\ ledger[addr].nonce # <<>>
    /\ ledger[addr].nonce = nonce
    /\ t < ledger[addr].expires

\* get_nonce: the unexpired nonce of the client, or a newly minted one
get_nonce(ledger, t, addr) ==
    IF ledger[addr].nonce # <<>> /\ t < ledger[addr].expires
    THEN ledger
    ELSE [ledger EXCEPT ![addr] =
            [nonce |-> MintNonce(ledger[addr].serial + 1),
             expires |-> t + Conf.nonce_ttl,
             serial |-> ledger[addr].serial + 1]]

\* the credential ledger, filled by the external authoriser: USER is
\* registered for every client
HasPassword(addr, u) == u = USER

get_password(addr, u) == PASSWORD

Min(a, b) == IF a < b THEN a ELSE b

\* create_allocation: fails when the client has an allocation or the pool is
\* exhausted, else reserves the lowest free port
UsedPorts(st) == { st[c].port : c \in { d \in Clients : st[d].live } }

CanAllocate(st, addr) == ~st[addr].live /\ Conf.ports \ UsedPorts(st) # {}

create_allocation(st, t, addr, u) ==
    LET free == Conf.ports \ UsedPorts(st)
        port == CHOOSE q \in free : \A r \in free : q <= r
    IN  [st EXCEPT ![addr] =
            [live |-> TRUE, username |-> u, port |-> port,
             expires |-> t + Conf.default_lifetime,
             permissions |-> {}, channels |-> {}]]

\* refresh: lifetime 0 deletes the allocation, else the expiry moves to
\* min(now + lifetime, now + max_lifetime)
refresh(st, t, addr, lifetime) ==
    IF ~st[addr].live THEN st
    ELSE IF lifetime = 0 THEN [st EXCEPT ![addr] = NoAlloc]
    ELSE [st EXCEPT ![addr].expires = Min(t + lifetime, t + Conf.max_lifetime)]

\* a binding holds its channel and its peer until its expiry plus the quiet
\* interval
ChannelHeld(b, t) == t < b.expires + Conf.channel_quiet

ChannelConflict(st, t, addr, port, number) ==
    \E b \in st[addr].channels :
        /\ ChannelHeld(b, t)
        /\ \/ b.number = number /\ b.port # port
           \/ b.port = port /\ b.number # number

\* insert_channel(addr, port, number): TRUE iff the binding was made or renewed
insert_channel_ok(st, t, addr, port, number) ==
    st[addr].live /\ ~ChannelConflict(st, t, addr, port, number)

insert_channel(st, t, addr, port, number) ==
    IF ~insert_channel_ok(st, t, addr, port, number) THEN st
    ELSE [st EXCEPT ![addr].channels =
            { b \in @ : b.number # number /\ b.port # port }
            \cup {[number |-> number, port |-> port, expires |-> t + Conf.channel_ttl]}]

\* sweep: expired allocations go with their permissions and channels; within
\* a live allocation expired permissions and released channels go
sweep(st, t) ==
    [c \in Clients |->
        IF ~st[c].live THEN st[c]
        ELSE IF st[c].expires <= t THEN NoAlloc
        ELSE [st[c] EXCEPT
                !.permissions = { q \in @ : t < q.expires },
                !.channels = { b \in @ : ChannelHeld(b, t) }]]

\* ------------------------------------------------------------------------
\* Request handlers
\* ------------------------------------------------------------------------

\* A handler step ends in one of:
\*   [tag |-> "respond", msg, auth]  Ok(Some((w, addr))): the response to encode
\*   [tag |-> "next"]                the handler goes on after its await
\*   [tag |-> "err"]                 Err(_): poll logs it, nothing is sent
\*   [tag |-> "panic"]               the worker's task panics
Respond(msg, auth) == [tag |-> "respond", msg |-> msg, auth |-> auth]

\* Message::extends / MessageWriter::derive: a message of the given kind with
\* the transaction id of the request and no attribute
Extends(kind, m) == [kind |-> kind, token |-> m.token, attributes |-> <<>>]

Append1(pack, kind, val) ==
    [pack EXCEPT !.attributes = Append(@, Attr(kind, val))]

\* refresh.rs, reject
RefreshReject(m, e) ==
    Respond(Append1(Extends("RefreshError", m), "ErrorAttrKind", ErrorFrom(e)), NoAuth)

\* refresh.rs, resolve
RefreshResolve(m, lifetime, u, p) ==
    Respond(Append1(Extends("RefreshResponse", m), "Lifetime", lifetime),
            <<u, p, Conf.realm>>)

\* the LIFETIME of a refresh request, 600 when absent
RefreshLifetime(m) ==
    IF MessageHas(m, "Lifetime") /\ MessageGet(m, "Lifetime").tag = "Lifetime"
    THEN MessageGet(m, "Lifetime").val
    ELSE 600

HasUserName(m) ==
    MessageHas(m, "UserName") /\ MessageGet(m, "UserName").tag = "UserName"

\* refresh.rs, process, up to the await of get_auth (lines 91-99)
RefreshStart(m) ==
    IF ~HasUserName(m) THEN RefreshReject(m, "Unauthorized")
    ELSE [tag |-> "next"]

\* RefreshAuth going on to state.refresh without m.verify
RefreshAuth_unverified(addr, m) ==
    LET u == MessageGet(m, "UserName").val
    IN  IF ~HasPassword(addr, u) THEN RefreshReject(m, "Unauthorized")
        ELSE [tag |-> "next"]

\* refresh.rs, process, from get_auth to the await of state.refresh
\* (lines 101-108): `m.verify(..)?` hands an Err of assert_integrity on
RefreshAuth(addr, m) ==
    LET u == MessageGet(m, "UserName").val
    IN  IF ~HasPassword(addr, u) THEN RefreshReject(m, "Unauthorized")
        ELSE LET v == assert_integrity(m, <<u, get_password(addr, u), Conf.realm>>)
             IN  CASE v = "panic" -> [tag |-> "panic"]
                   [] v = "err" -> [tag |-> "err"]
                   [] v = "false" -> RefreshReject(m, "Unauthorized")
                   [] OTHER -> [tag |-> "next"]

\* refresh.rs, process, lines 117-118: the state change and the response
RefreshApply(st, t, addr, m) == refresh(st, t, addr, RefreshLifetime(m))

\* RefreshDone answering 437 when the client has no allocation
RefreshDone_mismatch(st, t, addr, m) ==
    LET u == MessageGet(m, "UserName").val
    IN  IF ~st[addr].live THEN RefreshReject(m, "AllocationMismatch")
        ELSE RefreshResolve(m, RefreshLifetime(m), u, get_password(addr, u))

RefreshDone(st, t, addr, m) ==
    LET u == MessageGet(m, "UserName").val
    IN  RefreshResolve(m, RefreshLifetime(m), u, get_password(addr, u))

\* channel_bind.rs, reject
ChannelBindReject(m, e) ==
    Respond(Append1(Append1(Extends("CreatePermissionError", m),
                            "ErrorAttrKind", ErrorFrom(e)),
                    "Realm", Conf.realm),
            NoAuth)

\* channel_bind.rs, resolve
ChannelBindResolve(m, u, p) ==
    Respond(Extends("ChannelBindResponse", m), <<u, p, Conf.realm>>)

\* MessageReader::integrity(..).is_err() (the reader is not part of the
\* sources): an error unless the MESSAGE-INTEGRITY of the request matches
IntegrityIsErr(m, auth) == assert_integrity(m, auth) # "true"

\* channel_bind.rs, process, up to the await of get_password (lines 91-108)
ChannelBindStart(m) ==
    IF ~HasUserName(m) THEN ChannelBindReject(m, "Unauthorized")
    ELSE IF ~MessageHas(m, "ChannelNumber") THEN ChannelBindReject(m, "BadRequest")
    ELSE IF ~MessageHas(m, "XorPeerAddress") THEN ChannelBindReject(m, "BadRequest")
    ELSE IF ~(MessageGet(m, "ChannelNumber").val \in 16384..20479)
         THEN ChannelBindReject(m, "BadRequest")
    ELSE [tag |-> "next"]

\* channel_bind.rs, process, from get_password to the await of
\* insert_channel (lines 110-117)
ChannelBindAuth(addr, m) ==
    LET u == MessageGet(m, "UserName").val
    IN  IF ~HasPassword(addr, u) THEN ChannelBindReject(m, "Unauthorized")
        ELSE IF IntegrityIsErr(m, <<u, get_password(addr, u), Conf.realm>>)
             THEN ChannelBindReject(m, "Unauthorized")
        ELSE [tag |-> "next"]

\* channel_bind.rs, process, lines 101-104 and 119: only the port of the peer
\* address reaches insert_channel
ChannelBindPort(m) == MessageGet(m, "XorPeerAddress").val.port

ChannelBindApply(st, t, addr, m) ==
    insert_channel(st, t, addr, ChannelBindPort(m), MessageGet(m, "ChannelNumber").val)

\* channel_bind.rs, process, lines 119-130
ChannelBindDone(st, t, addr, m) ==
    LET u == MessageGet(m, "UserName").val
    IN  IF ~insert_channel_ok(st, t, addr, ChannelBindPort(m),
                              MessageGet(m, "ChannelNumber").val)
        THEN ChannelBindReject(m, "AllocationMismatch")
        ELSE ChannelBindResolve(m, u, get_password(addr, u))

\* Remux::process (remux/mod.rs is not part of the sources): the handler of a
\* message kind; kinds without a handler here are answered with Ok(None)
Handled(m) == m.kind \in {"RefreshRequest", "ChannelBindRequest"}

HandlerStart(m) ==
    IF m.kind = "RefreshRequest" THEN RefreshStart(m) ELSE ChannelBindStart(m)

HandlerAuth(addr, m) ==
    IF m.kind = "RefreshRequest" THEN RefreshAuth(addr, m) ELSE ChannelBindAuth(addr, m)

HandlerApply(st, t, addr, m) ==
    IF m.kind = "RefreshRequest" THEN RefreshApply(st, t, addr, m)
    ELSE ChannelBindApply(st, t, addr, m)

HandlerDone(st, t, addr, m) ==
    IF m.kind = "RefreshRequest" THEN RefreshDone(st, t, addr, m)
    ELSE ChannelBindDone(st, t, addr, m)

\* ------------------------------------------------------------------------
\* Clients and the datagrams they send
\* ------------------------------------------------------------------------

\* A request as a client composes it: user (<<>>: no USERNAME), realm (whether
\* REALM is sent), nonce ("cur": the nonce the server issued last, "old": a
\* nonce it never issued, "none"), lifetime (-1: no LIFETIME), channel (0: no
\* CHANNEL-NUMBER), peer (the XOR-PEER-ADDRESS attributes, in order), mi (the
\* MESSAGE-INTEGRITY is computed with the right password, a wrong one, or
\* left out)
RF(user, realm, nonce, lifetime, mi) ==
    [kind |-> "RefreshRequest", user |-> user, realm |-> realm, nonce |-> nonce,
     lifetime |-> lifetime, channel |-> 0, peer |-> <<>>, mi |-> mi]

CB(user, nonce, channel, peer, mi) ==
    [kind |-> "ChannelBindRequest", user |-> user, realm |-> TRUE, nonce |-> nonce,
     lifetime |-> -1, channel |-> channel, peer |-> peer, mi |-> mi]

RequestMenu ==
    { RF(USER, TRUE, "cur", 600, "valid"),
      RF(USER, TRUE, "cur", 0, "valid"),
      RF(USER, TRUE, "none", 600, "valid"),
      RF(USER, TRUE, "old", 600, "valid"),
      RF(USER, TRUE, "cur", 600, "none"),
      RF(USER, FALSE, "none", -1, "none"),
      RF(USER, TRUE, "cur", 600, "wrong"),
      RF(OTHER_USER, TRUE, "cur", 600, "valid"),
      RF(<<>>, FALSE, "none", 600, "none"),
      CB(USER, "cur", 16384, <<PEER1>>, "valid"),
      CB(USER, "cur", 16384, <<PEER2>>, "valid"),
      CB(USER, "cur", 16384, <<PEER3>>, "valid"),
      CB(USER, "cur", 16385, <<PEER1>>, "valid"),
      CB(USER, "none", 16384, <<PEER1>>, "valid"),
      CB(OTHER_USER, "cur", 0, <<>>, "valid"),
      CB(OTHER_USER, "cur", 16384, <<PEER1>>, "valid"),
      CB(USER, "cur", 0, <<PEER1>>, "valid"),
      CB(USER, "cur", 20480, <<PEER1>>, "valid"),
      CB(USER, "cur", 16384, <<>>, "valid"),
      CB(USER, "cur", 16384, <<PEER1, PEER3>>, "valid"),
      RF(USER, TRUE, "cur", 7200, "valid") }

OLD_NONCE == <<122, 122, 122, 122>>

RequestAttrs(r, cur) ==
    (IF r.user # <<>> THEN <<Attr("UserName", r.user)>> ELSE <<>>)
    \o (IF r.realm THEN <<Attr("Realm", Conf.realm)>> ELSE <<>>)
    \o (CASE r.nonce = "cur" -> <<Attr("Nonce", cur)>>
          [] r.nonce = "old" -> <<Attr("Nonce", OLD_NONCE)>>
          [] OTHER -> <<>>)
    \o (IF r.lifetime >= 0 THEN <<Attr("Lifetime", r.lifetime)>> ELSE <<>>)
    \o (IF r.channel > 0 THEN <<Attr("ChannelNumber", r.channel)>> ELSE <<>>)
    \o [i \in 1..Len(r.peer) |-> Attr("XorPeerAddress", r.peer[i])]

RequestAuth(r) ==
    CASE r.mi = "valid" -> <<r.user, PASSWORD, Conf.realm>>
      [] r.mi = "wrong" -> <<r.user, WRONG_PASSWORD, Conf.realm>>
      [] OTHER -> NoAuth

\* the datagram of a request
RequestBytes(r, cur) ==
    encode_message([kind |-> r.kind, token |-> T0, attributes |-> RequestAttrs(r, cur)],
                   RequestAuth(r))

\* ------------------------------------------------------------------------
\* Workers (turn_node/src/server.rs)
\* ------------------------------------------------------------------------

\* f.threads
Threads == 2

Workers == 1..Threads

NoResp == [tag |-> "none"]

\* arm: how Context::poll ended for the last datagram the worker took off the
\* socket without answering it: "no datagram" (read returned None), "err"
\* (Err(e), logged as "remux err"), "ignored" (Ok(None)); "none" otherwise.
\* holds: the worker is inside a State method and holds the state's lock
\* (SpecLock, where the lock is a step of its own)
\* prev: the number of bytes the write buffer held when the response was
\* encoded into it (SpecWrite, where the buffer keeps its bytes after a send)
IdleWorker ==
    [pc |-> "read", addr |-> CLIENT1, msg |-> UNKNOWN_PAYLOAD,
     arrival |-> 0, resp |-> NoResp, writer |-> <<>>, fresh |-> FALSE,
     mutated |-> FALSE, arm |-> "none", holds |-> FALSE, prev |-> 0]

\* the decoded request a worker is handling: a view of its read buffer
Request(w) == workers[w].msg

\* whether the NONCE of a request is the unexpired ledger entry of its client
NonceFresh(ledger, t, addr, m) ==
    /\ MessageHas(m, "Nonce")
    /\ MessageGet(m, "Nonce").tag = "Nonce"
    /\ check_nonce(ledger, t, addr, MessageGet(m, "Nonce").val)

\* Remux::process up to the first await of the handler, given the outcome of
\* decode_message: datagrams that do not start like a STUN message, and
\* message kinds without a handler, yield Ok(None)
RemuxStart(bytes, dec) ==
    IF bytes[1] > 3 THEN NoResp
    ELSE CASE dec.status = "err" -> [tag |-> "err"]
           [] dec.status = "panic" -> [tag |-> "panic"]
           [] ~Handled(dec.msg) -> NoResp
           [] OTHER -> HandlerStart(dec.msg)

\* the worker after a handler step that ended in `r`: a response is encoded
\* into the worker's write buffer; an Err is logged by poll, Ok(None) is not
AfterStep(wk, r, nextpc) ==
    CASE r.tag = "respond" ->
            [wk EXCEPT !.pc = "send", !.resp = r,
                       !.writer = encode_into(wk.writer, r.msg, r.auth),
                       !.prev = Len(wk.writer)]
      [] r.tag = "next" -> [wk EXCEPT !.pc = nextpc]
      [] r.tag = "panic" -> [wk EXCEPT !.pc = "crashed"]
      [] OTHER -> [wk EXCEPT !.pc = "read", !.msg = UNKNOWN_PAYLOAD,
                             !.arrival = 0, !.fresh = FALSE,
                             !.arm = IF r.tag = "err" THEN "err" ELSE "ignored"]

\* Context::read with the guard one byte short (r.0 >= 3)
ReadAccepts_three(size) == size >= 3

\* Context::read: Some(r) for a datagram of at least 4 bytes (line 110)
ReadAccepts(size) == size >= 4

\* Context::read, then Context::poll up to the handler's first await
Recv(w) ==
    /\ workers[w].pc = "read"
    /\ socket # <<>>
    /\ LET d == Head(socket)
           wk == [workers[w] EXCEPT !.addr = d.addr, !.arrival = received + 1,
                                    !.resp = NoResp, !.mutated = FALSE,
                                    !.arm = "none"]
       IN  /\ socket' = Tail(socket)
           /\ received' = received + 1
           /\ IF ~ReadAccepts(Len(d.bytes))
              THEN workers' = [workers EXCEPT ![w].arm = "no datagram"]
              ELSE LET dec == decode_message(d.bytes)
                       r == RemuxStart(d.bytes, dec)
                       live == r.tag \in {"respond", "next"}
                       fresh == live /\ NonceFresh(nonces, now, d.addr, dec.msg)
                   IN  workers' = [workers EXCEPT
                            ![w] = AfterStep(
                                [wk EXCEPT !.fresh = fresh,
                                           !.msg = IF live THEN dec.msg
                                                   ELSE UNKNOWN_PAYLOAD],
                                r, "auth")]
    /\ UNCHANGED <<codec, now, nonces, allocs, sentCount>>

\* the handler resumes after get_password / get_auth
Auth(w) ==
    /\ workers[w].pc = "auth"
    /\ workers' = [workers EXCEPT
            ![w] = AfterStep(@, HandlerAuth(@.addr, Request(w)), "mutate")]
    /\ UNCHANGED <<codec, now, nonces, allocs, socket, received, sentCount>>

\* the handler changes the relay state and builds its response
Apply(w) ==
    /\ workers[w].pc = "mutate"
    /\ LET wk == workers[w]
           st == HandlerApply(allocs, now, wk.addr, Request(w))
       IN  /\ allocs' = st
           /\ workers' = [workers EXCEPT
                ![w] = AfterStep([wk EXCEPT !.mutated = (st # allocs)],
                                 HandlerDone(allocs, now, wk.addr, Request(w)), "send")]
    /\ UNCHANGED <<codec, now, nonces, socket, received, sentCount>>

\* Context::send, send_to succeeds.  The bytes left in the write buffer are
\* dead: the next encode_message resets it before writing.
SendOk(w) ==
    /\ workers[w].pc = "send"
    /\ workers' = [workers EXCEPT ![w] =
            [@ EXCEPT !.pc = "read", !.msg = UNKNOWN_PAYLOAD,
                      !.resp = NoResp, !.arrival = 0, !.fresh = FALSE,
                      !.mutated = FALSE, !.writer = <<>>]]
    /\ UNCHANGED <<codec, now, nonces, allocs, socket, received, sentCount>>

\* Context::send with the failure only logged: the worker reads on
SendFail_logged(w) ==
    /\ workers[w].pc = "send"
    /\ workers' = [workers EXCEPT ![w] =
            [@ EXCEPT !.pc = "read", !.msg = UNKNOWN_PAYLOAD,
                      !.resp = NoResp, !.arrival = 0, !.fresh = FALSE,
                      !.mutated = FALSE, !.writer = <<>>]]
    /\ UNCHANGED <<codec, now, nonces, allocs, socket, received, sentCount>>

\* Context::send, send_to fails: std::process::abort().  The process is gone
\* with its memory (the relay state, the ledgers, the buffers) and its socket.
SendFail(w) ==
    /\ workers[w].pc = "send"
    /\ workers' = [v \in Workers |-> [IdleWorker EXCEPT !.pc = "aborted"]]
    /\ nonces' = [c \in Clients |-> NoNonce]
    /\ allocs' = [c \in Clients |-> NoAlloc]
    /\ socket' = <<>>
    /\ UNCHANGED <<codec, now, received, sentCount>>

\* ------------------------------------------------------------------------
\* Environment
\* ------------------------------------------------------------------------

\* the server process runs until a worker aborts it
Running == \A w \in Workers : workers[w].pc # "aborted"

\* a client sends a request
ClientSend(c, r) ==
    /\ Running
    /\ sentCount < MaxDatagrams
    /\ r.nonce = "cur" => nonces[c].nonce # <<>>
    /\ socket' = Append(socket, [addr |-> c, bytes |-> RequestBytes(r, nonces[c].nonce)])
    /\ sentCount' = sentCount + 1
    /\ UNCHANGED <<codec, now, nonces, allocs, received, workers>>

\* time passes, by one default lifetime
Tick ==
    /\ Running
    /\ now < MaxTicks * Conf.default_lifetime
    /\ now' = now + Conf.default_lifetime
    /\ UNCHANGED <<codec, nonces, allocs, socket, received, sentCount, workers>>

\* the periodic sweeper
Sweep ==
    /\ Running
    /\ sweep(allocs, now) # allocs
    /\ allocs' = sweep(allocs, now)
    /\ UNCHANGED <<codec, now, nonces, socket, received, sentCount, workers>>

\* an Allocate request of USER is granted (create_allocation)
Allocate(c) ==
    /\ Running
    /\ CanAllocate(allocs, c)
    /\ allocs' = create_allocation(allocs, now, c, USER)
    /\ UNCHANGED <<codec, now, nonces, socket, received, sentCount, workers>>

\* the server challenges a client (get_nonce)
Challenge(c) ==
    /\ Running
    /\ get_nonce(nonces, now, c) # nonces
    /\ nonces' = get_nonce(nonces, now, c)
    /\ UNCHANGED <<codec, now, allocs, socket, received, sentCount, workers>>

\* ------------------------------------------------------------------------
\* Specifications
\* ------------------------------------------------------------------------

IdleCodec ==
    [pc |-> "idle", m |-> [kind |-> "Unknown", token |-> <<>>, attributes |-> <<>>],
     auth |-> NoAuth, buf |-> <<>>, mut |-> <<>>, dec |-> NoDecode, ver |-> "none"]

InitRelay ==
    /\ now = 0
    /\ nonces = [c \in Clients |-> NoNonce]
    /\ allocs = [c \in Clients |-> NoAlloc]
    /\ socket = <<>>
    /\ received = 0
    /\ sentCount = 0
    /\ workers = [w \in Workers |-> IdleWorker]

Init ==
    /\ codec = IdleCodec
    /\ InitRelay

InitCodec ==
    /\ DrawCodec
    /\ InitRelay

Next ==
    \/ \E w \in Workers : Recv(w)
    \/ \E w \in Workers : Auth(w)
    \/ \E w \in Workers : Apply(w)
    \/ \E w \in Workers : SendOk(w)
    \/ \E w \in Workers : SendFail(w)
    \/ \E c \in Clients : \E r \in RequestMenu : ClientSend(c, r)
    \/ Tick
    \/ Sweep
    \/ \E c \in Clients : Allocate(c)
    \/ \E c \in Clients : Challenge(c)

\* the relay: clients, the socket, the workers and the clock
Spec == Init /\ [][Next]_vars

\* the codec alone
SpecCodec == InitCodec /\ [][NextCodec]_vars

\* ------------------------------------------------------------------------
\* Properties of the codec (SpecCodec)
\* ------------------------------------------------------------------------

CodecMutated == codec.mut # <<>>

\* the codec run has reached its result: verify has returned, or decode has
\* not produced a message
CodecSettled ==
    \/ codec.pc = "verified"
    \/ codec.pc = "decoded" /\ codec.dec.status # "ok"

\* what the receiver of the buffer gets: the result of verify, or the way
\* decode failed
VerifyOutcome ==
    CASE codec.dec.status = "err" -> "decode_err"
      [] codec.dec.status = "panic" -> "decode_panic"
      [] OTHER -> codec.ver

\* attribute lists agree entry by entry
SameAttributes(a, b) ==
    /\ Len(a) = Len(b)
    /\ \A i \in 1..Len(a) :
          /\ a[i][1] = b[i][1]
          /\ a[i][2].tag = b[i][2].tag
          /\ a[i][2].val = b[i][2].val

\* the attributes of a decoded message without the MESSAGE-INTEGRITY and
\* FINGERPRINT the encoder appended
RECURSIVE DropIntegrity(_)
DropIntegrity(a) ==
    IF a # <<>> /\ a[Len(a)][1] \in {"MessageIntegrity", "Fingerprint"}
    THEN DropIntegrity(SubSeq(a, 1, Len(a) - 1))
    ELSE a

\* C1: for every valid message m and credentials, verify(decode(encode(m,
\* creds)), creds) completes and returns true
C1_VerifyRoundTrip ==
    (codec.pc \in {"decoded", "verified"} /\ ~CodecMutated /\ codec.auth # NoAuth)
        => /\ codec.dec.status = "ok"
           /\ codec.pc = "verified" => codec.ver = "true"

\* C2: decode(encode(m, creds)) has the kind, the transaction id and the
\* ordered attribute list of m (the attributes the encoder appends for the
\* credentials set aside)
C2_DecodeRoundTrip ==
    (codec.pc \in {"decoded", "verified"} /\ ~CodecMutated)
        => /\ codec.dec.status = "ok"
           /\ codec.dec.msg.kind = codec.m.kind
           /\ codec.dec.msg.token = codec.m.token
           /\ SameAttributes(DropIntegrity(codec.dec.msg.attributes), codec.m.attributes)

\* the buffer before the mutation, and whether it verified
OrigBuf == encode_message(codec.m, codec.auth)

OrigVerifies ==
    LET d == decode_message(OrigBuf)
    IN  d.status = "ok" /\ assert_integrity(d.msg, codec.auth) = "true"

\* the offset of the MESSAGE-INTEGRITY attribute in the encoded buffer; the
\* FINGERPRINT attribute follows its 24 bytes
IntegrityAt == Len(encode_message(codec.m, NoAuth))

MutPos == codec.mut[1].pos

\* C4 as claimed: a changed byte before MESSAGE-INTEGRITY, header included,
\* makes the verification fail; a changed byte of FINGERPRINT leaves verify
\* true
C4_IntegrityScope ==
    (CodecMutated /\ CodecSettled /\ OrigVerifies)
        => /\ MutPos < IntegrityAt => VerifyOutcome # "true"
           /\ (MutPos >= IntegrityAt + 24 /\ codec.dec.status = "ok")
                => VerifyOutcome = "true"

\* C4 as amended: a changed byte before MESSAGE-INTEGRITY other than the two
\* bytes of the header length field makes the verification fail (verify does
\* not return true); a changed length field is either rejected by decode or
\* leaves verify true; a changed byte of FINGERPRINT leaves verify true
\* whenever the buffer still decodes, and always when it is one of the four
\* value bytes
C4_IntegrityScopeAmended ==
    (CodecMutated /\ CodecSettled /\ OrigVerifies)
        => /\ (MutPos < IntegrityAt /\ MutPos \notin {2, 3}) => VerifyOutcome # "true"
           /\ MutPos \in {2, 3} => VerifyOutcome \in {"true", "decode_err"}
           /\ (MutPos >= IntegrityAt + 24 /\ codec.dec.status = "ok")
                => VerifyOutcome = "true"
           /\ MutPos >= IntegrityAt + 28 => VerifyOutcome = "true"

\* a byte of an attribute before MESSAGE-INTEGRITY was changed and verify
\* returned false
C4_Witness ==
    /\ CodecMutated /\ codec.pc = "verified" /\ OrigVerifies
    /\ MutPos >= 20 /\ MutPos < IntegrityAt
    /\ codec.ver = "false"

\* ------------------------------------------------------------------------
\* Properties of the request handlers (Spec)
\* ------------------------------------------------------------------------

\* the response carries the ERROR-CODE of `e`
RespIsError(r, e) ==
    /\ r.tag = "respond"
    /\ MessageHas(r.msg, "ErrorAttrKind")
    /\ MessageGet(r.msg, "ErrorAttrKind").val.code = ErrKindCode[e]

RespIsSuccess(r) ==
    /\ r.tag = "respond"
    /\ r.msg.kind \in {"RefreshResponse", "ChannelBindResponse"}

\* worker w is about to send the response of a Refresh or ChannelBind handler
Answering(w) == workers[w].pc = "send" /\ Handled(Request(w))

\* the USERNAME of the request has a password in the credential ledger
KnownUser(w) ==
    /\ HasUserName(Request(w))
    /\ HasPassword(workers[w].addr, MessageGet(Request(w), "UserName").val)

\* the credentials the server holds for the user of the request
LedgerAuth(w) ==
    LET u == MessageGet(Request(w), "UserName").val
    IN  <<u, get_password(workers[w].addr, u), Conf.realm>>

\* C3: a ChannelBind or Refresh request without a fresh nonce is never
\* answered with a success response and never changes the relay state; when
\* its user and MESSAGE-INTEGRITY are in order it is answered with 438
C3_FreshNonce ==
    \A w \in Workers :
        (Answering(w) /\ ~workers[w].fresh)
            => /\ ~RespIsSuccess(workers[w].resp)
               /\ ~workers[w].mutated
               /\ (KnownUser(w) /\ assert_integrity(Request(w), LedgerAuth(w)) = "true")
                    => RespIsError(workers[w].resp, "StaleNonce")

\* C5: a ChannelBind or Refresh request whose USERNAME is absent from the
\* credential ledger is answered with 401, whatever its other attributes are
C5_UnknownUser ==
    \A w \in Workers :
        (Answering(w) /\ HasUserName(Request(w)) /\ ~KnownUser(w))
            => RespIsError(workers[w].resp, "Unauthorized")

\* a Refresh request of a known user whose MESSAGE-INTEGRITY is absent or
\* does not match
BadIntegrity(w) ==
    /\ Request(w).kind = "RefreshRequest"
    /\ KnownUser(w)
    /\ \/ ~MessageHas(Request(w), "MessageIntegrity")
       \/ assert_integrity(Request(w), LedgerAuth(w)) = "false"

\* C6: the handler of a Refresh request of a known user whose
\* MESSAGE-INTEGRITY is absent or does not match ends in a Refresh error
\* response with 401, and leaves the allocations alone
C6_RefreshIntegrity ==
    [][ \A w \in Workers :
            (Auth(w) /\ BadIntegrity(w))
                => /\ workers'[w].pc = "send"
                   /\ workers'[w].resp.msg.kind = "RefreshError"
                   /\ RespIsError(workers'[w].resp, "Unauthorized")
                   /\ allocs' = allocs ]_vars

\* C7: every authentication failure response (401, 438) of the ChannelBind
\* and Refresh handlers carries REALM, NONCE and ERROR-CODE
C7_AuthFailureAttributes ==
    \A w \in Workers :
        (/\ Answering(w)
         /\ \/ RespIsError(workers[w].resp, "Unauthorized")
            \/ RespIsError(workers[w].resp, "StaleNonce"))
            => /\ MessageHas(workers[w].resp.msg, "Realm")
               /\ MessageHas(workers[w].resp.msg, "Nonce")
               /\ MessageHas(workers[w].resp.msg, "ErrorAttrKind")

\* C8: when a worker applies a request while an earlier request of the same
\* client is still in its handler, the outcome is that of the arrival order:
\* the state after both equals the state of applying the earlier one first,
\* and the response is the one the later request gets after the earlier one
C8_PerClientOrder ==
    [][ \A w, v \in Workers :
            (/\ Apply(w)
             /\ v # w
             /\ workers[v].pc = "mutate"
             /\ workers[v].addr = workers[w].addr
             /\ workers[v].arrival < workers[w].arrival)
                => LET a == workers[w].addr
                       first == HandlerApply(allocs, now, a, Request(v))
                   IN  /\ HandlerApply(allocs', now, a, Request(v))
                            = HandlerApply(first, now, a, Request(w))
                       /\ workers'[w].resp = HandlerDone(first, now, a, Request(w)) ]_vars

\* worker w is about to send the success response of a ChannelBind
BoundBy(w) ==
    /\ workers[w].pc = "send"
    /\ Request(w).kind = "ChannelBindRequest"
    /\ workers[w].resp.msg.kind = "ChannelBindResponse"

\* C9: the held channel bindings of an allocation are a bijection, and of two
\* ChannelBind requests of a client that name the same channel and different
\* peers, or the same peer and different channels, no two are answered with
\* success
C9_ChannelExclusive ==
    /\ \A c \in Clients : \A b1, b2 \in allocs[c].channels :
            (ChannelHeld(b1, now) /\ ChannelHeld(b2, now))
                => ((b1.number = b2.number) <=> (b1.port = b2.port))
    /\ \A w, v \in Workers :
            (BoundBy(w) /\ BoundBy(v) /\ workers[w].addr = workers[v].addr)
                => LET cw == MessageGet(Request(w), "ChannelNumber").val
                       cv == MessageGet(Request(v), "ChannelNumber").val
                       pw == MessageGet(Request(w), "XorPeerAddress").val
                       pv == MessageGet(Request(v), "XorPeerAddress").val
                   IN  (cw = cv) <=> (pw = pv)

\* C10: after a successful ChannelBind for peer p the allocation of the
\* client holds a permission for p.ip that expires no earlier than the binding
C10_BindingPermission ==
    \A w \in Workers :
        BoundBy(w)
            => \A b \in allocs[workers[w].addr].channels :
                    b.number = MessageGet(Request(w), "ChannelNumber").val
                        => \E q \in allocs[workers[w].addr].permissions :
                                /\ q.ip = MessageGet(Request(w), "XorPeerAddress").val.ip
                                /\ q.expires >= b.expires

\* the number of attributes of a kind in a message
CountAttr(m, kind) ==
    Cardinality({ i \in 1..Len(m.attributes) : m.attributes[i][1] = kind })

\* a ChannelBind request that names no channel in [0x4000, 0x4FFF] or does not
\* carry exactly one XOR-PEER-ADDRESS
Malformed(m) ==
    \/ ~MessageHas(m, "ChannelNumber")
    \/ MessageGet(m, "ChannelNumber").val \notin 16384..20479
    \/ CountAttr(m, "XorPeerAddress") # 1

\* C11: a ChannelBind request (with a USERNAME) whose CHANNEL-NUMBER is missing
\* or out of range, or that carries no or several XOR-PEER-ADDRESS, is
\* answered with 400 and creates no channel binding
C11_BadRequest ==
    \A w \in Workers :
        (/\ Answering(w)
         /\ Request(w).kind = "ChannelBindRequest"
         /\ HasUserName(Request(w))
         /\ Malformed(Request(w)))
            => /\ RespIsError(workers[w].resp, "BadRequest")
               /\ ~workers[w].mutated

\* C12: the LIFETIME of every Refresh success response is the requested
\* lifetime (600 when the request has none) clamped to max_lifetime
C12_ClampedLifetime ==
    \A w \in Workers :
        (Answering(w) /\ workers[w].resp.msg.kind = "RefreshResponse")
            => /\ MessageHas(workers[w].resp.msg, "Lifetime")
               /\ MessageGet(workers[w].resp.msg, "Lifetime").val
                    = Min(RefreshLifetime(Request(w)), Conf.max_lifetime)
               /\ MessageGet(workers[w].resp.msg, "Lifetime").val <= 3600

\* the request of worker w is a Refresh with LIFETIME = 0
RefreshZero(w) ==
    /\ Request(w).kind = "RefreshRequest"
    /\ RefreshLifetime(Request(w)) = 0

DocumentedCode ==
    [ BadRequest |-> 400,
      Unauthorized |-> 401,
      Forbidden |-> 403,
      AllocationMismatch |-> 437,
      StaleNonce |-> 438,
      WrongCredentials |-> 441,
      UnsupportedTransportAddress |-> 442,
      ServerError |-> 500,
      InsufficientCapacity |-> 508 ]

\* the value of the ERROR-CODE attribute that reject writes first, as it
\* stands in an encoded response
WireErrorValue(buf) == Slice(buf, 24, 24 + as_u16(Slice(buf, 22, 24)))

\* the error kind of a response
RespErrKind(r) ==
    CHOOSE e \in ErrKinds : ErrKindCode[e] = MessageGet(r.msg, "ErrorAttrKind").val.code

\* C14: the ERROR-CODE value of every error response on the wire holds the
\* class in the low bits of its third byte and a number in 0..99 in its fourth,
\* and class * 100 + number is the documented code of the error kind
C14_WireErrorCode ==
    \A w \in Workers :
        (Answering(w) /\ MessageHas(workers[w].resp.msg, "ErrorAttrKind"))
            => LET v == WireErrorValue(workers[w].writer)
                   e == RespErrKind(workers[w].resp)
               IN  /\ as_u16(Slice(workers[w].writer, 20, 22)) = AttrCode.ErrorAttrKind
                   /\ e \in DOMAIN DocumentedCode
                   /\ v[4] \in 0..99
                   /\ (v[3] % 8) * 100 + v[4] = DocumentedCode[e]

\* ------------------------------------------------------------------------
\* decode_message on received buffers (SpecDecode)
\* ------------------------------------------------------------------------

\* longest attribute list of a received buffer
MaxRawAttrs == 3

\* an attribute as it stands on the wire: type, declared length, value bytes,
\* and whether the padding to four bytes follows the value
Raw(code, value) == [code |-> code, size |-> Len(value), value |-> value, pad |-> TRUE]

\* an attribute type that AttrKind does not know
UNKNOWN_ATTR == 32513

\* a message type that Kind does not know
UNKNOWN_KIND == 4095

BAD_COOKIE == <<33, 18, 164, 67>>

\* "Unauthorized" after the four bytes Error::as_bytes writes first
RawErrorText == <<0, 0, 4, 1>> \o ErrKindText.Unauthorized

RawAttrPool ==
    << Raw(AttrCode.UserName, USER),
       Raw(AttrCode.Lifetime, u32_be(600)),
       Raw(UNKNOWN_ATTR, <<1, 2>>),
       Raw(UNKNOWN_ATTR, <<>>),
       Raw(AttrCode.MessageIntegrity, Zeros(20)),
       Raw(AttrCode.Fingerprint, <<1, 2, 3, 4>>),
       Raw(AttrCode.ErrorAttrKind, RawErrorText),
       Raw(AttrCode.ErrorAttrKind, <<0, 0, 4, 1, 79, 75>>),
       Raw(AttrCode.ErrorAttrKind, <<0, 1, 4, 1, 79, 75, 75>>),
       Raw(AttrCode.ErrorAttrKind, <<0, 0, 4>>),
       Raw(AttrCode.ErrorAttrKind, <<0, 1, 4, 1>>),
       Raw(AttrCode.ErrorAttrKind, <<>>),
       [code |-> AttrCode.Data, size |-> 200, value |-> <<1>>, pad |-> TRUE],
       [code |-> AttrCode.UserName, size |-> 1, value |-> USER, pad |-> FALSE] >>

\* the lists of at most n wire attributes, in any order
RECURSIVE RawLists(_)
RawLists(n) ==
    IF n = 0 THEN { <<>> }
    ELSE RawLists(n - 1)
         \cup { Append(l, RawAttrPool[i]) :
                    l \in { k \in RawLists(n - 1) : Len(k) = n - 1 },
                    i \in 1..Len(RawAttrPool) }

RawAttrBytes(a) ==
    u16_be(a.code) \o u16_be(a.size) \o a.value
    \o (IF a.pad THEN Zeros(pad_size(Len(a.value))) ELSE <<>>)

RECURSIVE RawBody(_)
RawBody(attrs) ==
    IF attrs = <<>> THEN <<>> ELSE RawAttrBytes(Head(attrs)) \o RawBody(Tail(attrs))

\* a received datagram: the type field, the cookie, a length field that is
\* `extra` more than the attribute bytes (less when negative, and at least
\* 0), the attributes; `keep` bytes of it arrive
RawMessages ==
    [kind : {"Raw"}, type : {KindCode.RefreshResponse, UNKNOWN_KIND},
     cookie : {COOKIE, BAD_COOKIE}, extra : {0, 4, -8},
     attrs : RawLists(MaxRawAttrs), keep : {19, 65535}]

RawBytes(m) ==
    LET body == RawBody(m.attrs)
        size == IF Len(body) + m.extra < 0 THEN 0 ELSE Len(body) + m.extra
        all == u16_be(m.type) \o u16_be(size) \o m.cookie \o T0 \o body
    IN  SubSeq(all, 1, Min(m.keep, Len(all)))

DrawRaw ==
    \E m \in RawMessages :
        codec = [pc |-> "encoded", m |-> m, auth |-> NoAuth, buf |-> RawBytes(m),
                 mut |-> <<>>, dec |-> NoDecode, ver |-> "none"]

InitDecode ==
    /\ DrawRaw
    /\ InitRelay

NextDecode == CodecDecode /\ UNCHANGED relayVars

SpecDecode == InitDecode /\ [][NextDecode]_vars

\* decode_message has returned
Decoded == codec.pc = "decoded"

\* C15: decode_message returns an error for every buffer of at least 20 bytes
\* whose bytes 4..8 are not the magic cookie, whatever its type field holds
C15_BadCookie ==
    (Decoded /\ Len(codec.buf) >= 20 /\ Slice(codec.buf, 4, 8) # COOKIE)
        => codec.dec.status = "err"

\* C16: decode_message returns an error for every buffer shorter than 20
\* bytes and for every buffer whose length field plus 20 exceeds its length,
\* whatever its type field holds
C16_LengthMismatch ==
    (/\ Decoded
     /\ \/ Len(codec.buf) < 20
        \/ as_u16(Slice(codec.buf, 2, 4)) + 20 > Len(codec.buf))
        => codec.dec.status = "err"

\* the attribute of a received buffer arrived whole, padding included
RawWhole(a) == a.size = Len(a.value) /\ a.pad

\* index of the first wire attribute of the type `code`
FirstRaw(attrs, code) ==
    CHOOSE i \in 1..Len(attrs) :
        /\ attrs[i].code = code
        /\ \A j \in 1..(i - 1) : attrs[j].code # code

\* byte offset of the header of the i-th wire attribute
RawOffset(attrs, i) == 20 + Len(RawBody(SubSeq(attrs, 1, i - 1)))

\* the FINGERPRINT values that stand after position i on the wire
RECURSIVE RawFingerprintsAfter(_, _)
RawFingerprintsAfter(attrs, i) ==
    IF i >= Len(attrs) THEN <<>>
    ELSE (IF attrs[i + 1].code = AttrCode.Fingerprint
          THEN <<as_u32(attrs[i + 1].value)>> ELSE <<>>)
         \o RawFingerprintsAfter(attrs, i + 1)

\* the Fingerprint values a decoded message holds after its first
\* MessageIntegrity
RECURSIVE FingerprintsAfter(_, _)
FingerprintsAfter(attributes, seen) ==
    IF attributes = <<>> THEN <<>>
    ELSE LET a == Head(attributes)
         IN  (IF seen /\ a[1] = "Fingerprint" THEN <<a[2].val>> ELSE <<>>)
             \o FingerprintsAfter(Tail(attributes),
                                  seen \/ a[1] = "MessageIntegrity")

\* decode_message returned a message that holds MESSAGE-INTEGRITY
DecodedIntegrity ==
    /\ Decoded
    /\ codec.dec.status = "ok"
    /\ MessageHas(codec.dec.msg, "MessageIntegrity")

\* C17: when the decoded message holds MESSAGE-INTEGRITY, block is the byte
\* offset of the header of the first MESSAGE-INTEGRITY attribute of the
\* buffer, and the FINGERPRINT attributes after it are returned in the
\* attribute list without moving block
C17_IntegrityOffset ==
    DecodedIntegrity
        => LET attrs == codec.m.attrs
               i == FirstRaw(attrs, AttrCode.MessageIntegrity)
           IN  /\ codec.dec.msg.block = RawOffset(attrs, i)
               /\ (\A j \in 1..Len(attrs) : RawWhole(attrs[j]))
                    => FingerprintsAfter(codec.dec.msg.attributes, FALSE)
                         = RawFingerprintsAfter(attrs, i)

\* MESSAGE-INTEGRITY stands behind another attribute and FINGERPRINT follows it
C17_Witness ==
    /\ DecodedIntegrity
    /\ codec.dec.msg.block > 20
    /\ Len(codec.dec.msg.attributes) = 3
    /\ codec.dec.msg.attributes[2][1] = "MessageIntegrity"
    /\ codec.dec.msg.attributes[3][1] = "Fingerprint"

\* a wire attribute of a type AttrKind knows
RawKnown(a) == AttrTryFrom(a.code) # None

\* a wire attribute of a known type whose value has the form of its type
\* (spec 4.A; for ErrorCode at least the four leading bytes and a two byte
\* reason, with a zero reserved field)
RawWellFormed(a) ==
    LET k == AttrTryFrom(a.code)
        v == a.value
    IN  /\ RawWhole(a)
        /\ CASE k \in TextKinds -> IsUtf8(v)
              [] k \in {"Lifetime", "Fingerprint"} -> Len(v) = 4
              [] k = "MessageIntegrity" -> Len(v) = 20
              [] k = "ErrorAttrKind" -> Len(v) >= 6 /\ as_u16(SubSeq(v, 1, 2)) = 0
              [] k = "Data" -> TRUE
              [] OTHER -> FALSE

\* the kinds of the known wire attributes after position i, in wire order
RECURSIVE RawKindsAfter(_, _)
RawKindsAfter(attrs, i) ==
    IF i >= Len(attrs) THEN <<>>
    ELSE (IF RawKnown(attrs[i + 1]) THEN <<AttrTryFrom(attrs[i + 1].code)>> ELSE <<>>)
         \o RawKindsAfter(attrs, i + 1)

\* a received buffer with a sound header whose attributes are whole, one of
\* them of unknown type, the known ones well-formed
RawWithUnknown ==
    /\ codec.m.type # UNKNOWN_KIND
    /\ codec.m.cookie = COOKIE
    /\ codec.m.extra = 0
    /\ Len(codec.buf) >= 20
    /\ \E i \in 1..Len(codec.m.attrs) : ~RawKnown(codec.m.attrs[i])
    /\ \A i \in 1..Len(codec.m.attrs) :
          RawKnown(codec.m.attrs[i]) => RawWellFormed(codec.m.attrs[i])
    /\ \A i \in 1..Len(codec.m.attrs) : RawWhole(codec.m.attrs[i])

\* C18: decode_message succeeds on a buffer that holds an attribute of
\* unknown type and returns every well-formed known attribute that follows
\* it, in wire order
C18_UnknownSkipped ==
    (Decoded /\ RawWithUnknown)
        => LET attrs == codec.m.attrs
               i == CHOOSE i \in 1..Len(attrs) :
                        /\ ~RawKnown(attrs[i])
                        /\ \A j \in 1..(i - 1) : RawKnown(attrs[j])
               want == RawKindsAfter(attrs, i)
           IN  /\ codec.dec.status = "ok"
               /\ LET got == codec.dec.msg.attributes
                  IN  /\ Len(got) >= Len(want)
                      /\ \A j \in 1..Len(want) :
                            got[Len(got) - Len(want) + j][1] = want[j]

\* the codes of the ERROR-CODE values on the wire that are at least 6 bytes
\* long (bytes 2..4 of each)
RECURSIVE RawErrorCodes(_)
RawErrorCodes(attrs) ==
    IF attrs = <<>> THEN <<>>
    ELSE LET a == Head(attrs)
         IN  (IF a.code = AttrCode.ErrorAttrKind /\ Len(a.value) >= 6
              THEN <<as_u16(SubSeq(a.value, 3, 4))>> ELSE <<>>)
             \o RawErrorCodes(Tail(attrs))

\* the codes of the ErrorCode properties of a decoded attribute list
RECURSIVE ErrorCodes(_)
ErrorCodes(attributes) ==
    IF attributes = <<>> THEN <<>>
    ELSE (IF Head(attributes)[1] = "ErrorAttrKind"
          THEN <<Head(attributes)[2].val.code>> ELSE <<>>)
         \o ErrorCodes(Tail(attributes))

\* a received buffer with a sound header and whole attributes, one of them
\* ERROR-CODE, each ERROR-CODE either shorter than 6 bytes or with a zero
\* reserved field
RawWithErrorCode ==
    /\ codec.m.type # UNKNOWN_KIND
    /\ codec.m.cookie = COOKIE
    /\ codec.m.extra = 0
    /\ Len(codec.buf) >= 20
    /\ \A i \in 1..Len(codec.m.attrs) : RawWhole(codec.m.attrs[i])
    /\ \E i \in 1..Len(codec.m.attrs) : codec.m.attrs[i].code = AttrCode.ErrorAttrKind
    /\ \A i \in 1..Len(codec.m.attrs) :
          LET a == codec.m.attrs[i]
          IN  (a.code = AttrCode.ErrorAttrKind /\ Len(a.value) >= 6)
                  => as_u16(SubSeq(a.value, 1, 2)) = 0

\* C20: an ERROR-CODE value of at least 6 bytes with a zero reserved field
\* decodes to the code in its bytes 2..4, and a shorter value is rejected
\* (left out of the attribute list) without a panic
C20_ErrorCodeLength ==
    (Decoded /\ RawWithErrorCode)
        => /\ codec.dec.status = "ok"
           /\ ErrorCodes(codec.dec.msg.attributes) = RawErrorCodes(codec.m.attrs)

\* ------------------------------------------------------------------------
\* The layout encode_message leaves in the buffer (SpecCodec)
\* ------------------------------------------------------------------------

\* the attribute headers of a buffer read from byte offset `off` on: offset,
\* type and length field of each, every value followed by its padding; a
\* header or value that passes the end of the buffer ends the list, marked cut
RECURSIVE WireHeaders(_, _)
WireHeaders(buf, off) ==
    LET cut == [off |-> off, code |-> 0, size |-> 0, cut |-> TRUE]
    IN  IF off = Len(buf) THEN <<>>
        ELSE IF off + 4 > Len(buf) THEN <<cut>>
        ELSE LET size == as_u16(Slice(buf, off + 2, off + 4))
                 next == off + 4 + size + pad_size(size)
                 h == [off |-> off, code |-> as_u16(Slice(buf, off, off + 2)),
                       size |-> size, cut |-> FALSE]
             IN  IF next > Len(buf) THEN <<cut>> ELSE <<h>> \o WireHeaders(buf, next)

\* encode_message has returned and the buffer is as it left it
Encoded == codec.pc = "encoded" /\ codec.mut = <<>>

\* C19: after encode_message the header length field is the buffer length
\* minus 20; every attribute starts on a 4-byte boundary and its length field
\* holds the unpadded length of its value; with credentials MESSAGE-INTEGRITY
\* then FINGERPRINT are the last two attributes and the digest is the one of
\* the bytes before MESSAGE-INTEGRITY with the length field at body + 24
C19_EncodedLayout ==
    Encoded
        => LET buf == codec.buf
               attributes == codec.m.attributes
               hs == WireHeaders(buf, 20)
               n == Len(attributes)
           IN  /\ as_u16(Slice(buf, 2, 4)) = Len(buf) - 20
               /\ \A i \in 1..Len(hs) : ~hs[i].cut
               /\ \A i \in 1..Len(hs) : hs[i].off % 4 = 0
               /\ Len(hs) = n + (IF codec.auth # NoAuth THEN 2 ELSE 0)
               /\ \A i \in 1..n :
                     /\ hs[i].code = AttrCode[attributes[i][1]]
                     /\ hs[i].size = Len(IntoBytes(attributes[i][2]))
               /\ codec.auth # NoAuth
                    => LET mi == hs[n + 1]
                           fp == hs[n + 2]
                           body == mi.off - 20
                           key == long_key(codec.auth[1], codec.auth[2], codec.auth[3])
                       IN  /\ mi.code = AttrCode.MessageIntegrity /\ mi.size = 20
                           /\ fp.code = AttrCode.Fingerprint /\ fp.size = 4
                           /\ fp.off = mi.off + 24
                           /\ Slice(buf, mi.off + 4, mi.off + 24)
                                = hmac_sha1(key, << Slice(buf, 0, 2) \o u16_be(body + 24)
                                                    \o Slice(buf, 4, mi.off) >>)

\* a message with a padded attribute was encoded with credentials
C19_Witness ==
    /\ Encoded
    /\ codec.auth # NoAuth
    /\ \E i \in 1..Len(codec.m.attributes) :
          Len(IntoBytes(codec.m.attributes[i][2])) % 4 # 0
    /\ Len(codec.buf) > 52

\* ------------------------------------------------------------------------
\* decode_channel on received buffers (SpecChannel)
\* ------------------------------------------------------------------------

\* decode_channel: [status |-> "ok", data |-> ChannelData] or "err";
\* ChannelData is [number, buf], buf being the buffer handed in
decode_channel(buf) ==
    LET len == Len(buf)
    IN  IF ~(len >= 4) THEN [status |-> "err"]
        ELSE LET size == as_u16(Slice(buf, 2, 4))
             IN  IF ~(size <= len - 4) THEN [status |-> "err"]
                 ELSE [status |-> "ok",
                       data |-> [number |-> as_u16(Slice(buf, 0, 2)), buf |-> buf]]

\* most bytes behind the header of a channel data buffer
MaxChannelData == 4

\* the first two bytes of a received buffer: below, at the ends of, and above
\* the channel number range
ChannelNumbers == {0, 16383, 16384, 20479, 20480, 65535}

\* a received buffer: the number, a declared length, `len` bytes behind the
\* header; `keep` bytes of it arrive
ChannelBuffers ==
    [kind : {"Channel"}, number : ChannelNumbers, size : 0..(MaxChannelData + 1),
     len : 0..MaxChannelData, keep : {1, 3, 65535}]

ChannelBytes(m) ==
    LET all == u16_be(m.number) \o u16_be(m.size) \o [i \in 1..m.len |-> 160 + i]
    IN  SubSeq(all, 1, Min(m.keep, Len(all)))

DrawChannel ==
    \E m \in ChannelBuffers :
        codec = [pc |-> "channel", m |-> m, auth |-> NoAuth, buf |-> ChannelBytes(m),
                 mut |-> <<>>, dec |-> NoDecode, ver |-> "none"]

InitChannel ==
    /\ DrawChannel
    /\ InitRelay

\* decode_channel(buf)
ChannelDecode ==
    /\ codec.pc = "channel"
    /\ codec' = [codec EXCEPT !.pc = "channeled", !.dec = decode_channel(codec.buf)]

NextChannel == ChannelDecode /\ UNCHANGED relayVars

SpecChannel == InitChannel /\ [][NextChannel]_vars

\* decode_channel has returned
Channeled == codec.pc = "channeled"

\* C21: decode_channel fails exactly when the buffer is shorter than 4 bytes
\* or its declared length exceeds the bytes behind the header; on success the
\* number is bytes 0..2 and the payload is the declared number of bytes
\* behind the header
C21_ChannelDecode ==
    Channeled
        => LET buf == codec.buf
               short == Len(buf) < 4
               over == ~short /\ buf[3] * 256 + buf[4] > Len(buf) - 4
           IN  /\ (codec.dec.status = "err") <=> (short \/ over)
               /\ codec.dec.status = "ok"
                    => /\ codec.dec.data.number = buf[1] * 256 + buf[2]
                       /\ codec.dec.data.buf
                            = SubSeq(buf, 5, 4 + buf[3] * 256 + buf[4])

\* C22: the number of every ChannelData that decode_channel returns lies in
\* 0x4000..0x4FFF
C22_ChannelRange ==
    (Channeled /\ codec.dec.status = "ok")
        => codec.dec.data.number \in 16384..20479

\* ------------------------------------------------------------------------
\* AttrKind::from, Property::into_bytes and Property::kind on attribute
\* values (SpecAttr)
\* ------------------------------------------------------------------------

\* longest attribute value
MaxValueLen == 3

\* the bytes of a value: NUL, an ASCII letter, a byte that is not UTF-8
ValueBytes == {0, 117, 200}

RECURSIVE Values(_)
Values(n) ==
    IF n = 0 THEN { <<>> }
    ELSE Values(n - 1)
         \cup { Append(v, b) : v \in { u \in Values(n - 1) : Len(u) = n - 1 },
                               b \in ValueBytes }

DrawAttr ==
    \E k \in AttrKinds : \E v \in Values(MaxValueLen) :
        codec = [pc |-> "attr", m |-> [kind |-> "Attr", attr |-> k, value |-> v],
                 auth |-> NoAuth, buf |-> <<>>, mut |-> <<>>, dec |-> NoDecode,
                 ver |-> "none"]

InitAttr ==
    /\ DrawAttr
    /\ InitRelay

\* kind.from(token, value), then property.kind() and
\* property.into_bytes(buf, token) on an empty buffer
AttrConvert ==
    /\ codec.pc = "attr"
    /\ LET r == AttrFrom(codec.m.attr, codec.m.value)
       IN  codec' = [codec EXCEPT
                !.pc = "converted",
                !.dec = IF r.status = "ok"
                        THEN [status |-> "ok", p |-> r.p, kind |-> PropertyKind(r.p)]
                        ELSE [status |-> r.status],
                !.buf = IF r.status = "ok" THEN IntoBytes(r.p) ELSE <<>>]

NextAttr == AttrConvert /\ UNCHANGED relayVars

SpecAttr == InitAttr /\ [][NextAttr]_vars

\* a value of a text or data attribute was converted to a Property
ConvertedText ==
    /\ codec.pc = "converted"
    /\ codec.m.attr \in TextKinds \cup {"Data"}
    /\ codec.dec.status = "ok"

\* C27: a value of a UserName, Realm, Nonce, Software or Data attribute that
\* AttrKind::from converts is written back byte for byte by into_bytes, and
\* kind() of the Property is the AttrKind it was converted with
C27_TextRoundTrip ==
    ConvertedText
        => /\ codec.buf = codec.m.value
           /\ codec.dec.kind = codec.m.attr

\* a Software value of three bytes went through the conversion
C27_Witness ==
    /\ ConvertedText
    /\ codec.m.attr = "Software"
    /\ Len(codec.m.value) = 3

\* a received buffer with a sound header and no ERROR-CODE attribute (whose
\* conversion reads its value, not the buffer)
RawWithoutErrorCode ==
    /\ codec.m.kind = "Raw"
    /\ codec.m.type # UNKNOWN_KIND
    /\ codec.m.cookie = COOKIE
    /\ codec.m.extra = 0
    /\ \A i \in 1..Len(codec.m.attrs) : codec.m.attrs[i].code # AttrCode.ErrorAttrKind

\* C28: the attribute walk of decode_message never moves its offset past the
\* end of the buffer (the subtraction count_size - offset does not underflow
\* and no byte behind the buffer is indexed), also when the value of the last
\* attribute ends the buffer without its padding
C28_WalkInBounds ==
    (Decoded /\ RawWithoutErrorCode) => codec.dec.status # "panic"

\* the number of wire attributes whose header starts before byte `limit`
RawCountBefore(attrs, limit) ==
    Cardinality({ i \in 1..Len(attrs) : RawOffset(attrs, i) < limit })

\* C29: decode_message returns no attribute whose header starts at or after
\* byte 20 + the declared message length, whatever bytes trail the message
C29_WithinDeclaredLength ==
    (/\ Decoded
     /\ codec.m.kind = "Raw"
     /\ codec.m.type # UNKNOWN_KIND
     /\ codec.dec.status = "ok")
        => Len(codec.dec.msg.attributes)
             <= RawCountBefore(codec.m.attrs, 20 + as_u16(Slice(codec.buf, 2, 4)))

\* ------------------------------------------------------------------------
\* The order of authentication and state change in the handlers (Spec)
\* ------------------------------------------------------------------------

\* the USERNAME of the request is in the credential ledger and its
\* MESSAGE-INTEGRITY matches the ledger's password
Verified(w) ==
    /\ KnownUser(w)
    /\ assert_integrity(Request(w), LedgerAuth(w)) = "true"

\* C30: the ChannelBind and Refresh handlers call insert_channel and refresh
\* only for a request whose user is in the credential ledger and whose
\* MESSAGE-INTEGRITY was verified; the handler steps before that point, the
\* ones that end in an error response included, leave the relay state as it is
C30_MutateAfterAuth ==
    [][ \A w \in Workers :
            /\ Apply(w) => Verified(w)
            /\ (Recv(w) \/ Auth(w)) => (allocs' = allocs /\ nonces' = nonces) ]_vars

\* a verified request has changed the relay state and is being answered
C30_Witness ==
    \E w \in Workers :
        /\ workers[w].pc = "send"
        /\ workers[w].mutated
        /\ Verified(w)
        /\ RespIsSuccess(workers[w].resp)

\* ------------------------------------------------------------------------
\* Context::poll, Context::read and Context::send (Spec, SpecPoll)
\* ------------------------------------------------------------------------

\* C25: when send_to fails the failure is only logged: the process runs on
\* and the relay state (allocations, nonces) is what it was
C25_SendFailureLogged ==
    [][ \A w \in Workers :
            SendFail(w) => (Running' /\ allocs' = allocs /\ nonces' = nonces) ]_vars

\* the datagrams the clients of SpecPoll send
DatagramMenu ==
    LET header(type, size, cookie) == u16_be(type) \o u16_be(size) \o cookie \o T0
        rtype == KindCode.RefreshRequest
    IN  { \* no byte at all, and three bytes
          <<>>,
          <<0, 1, 0>>,
          \* the first ten bytes of a header: decode_message fails
          SubSeq(header(rtype, 0, COOKIE), 1, 10),
          \* a wrong cookie: decode_message fails
          header(rtype, 0, BAD_COOKIE),
          \* an ERROR-CODE attribute with an empty value
          header(rtype, 4, COOKIE) \o u16_be(AttrCode.ErrorAttrKind) \o u16_be(0),
          \* a message type Kind does not know
          header(UNKNOWN_KIND, 0, COOKIE),
          \* a message kind without a handler
          encode_message([kind |-> "RefreshResponse", token |-> T0,
                          attributes |-> <<>>], NoAuth),
          \* a Refresh request without MESSAGE-INTEGRITY: m.verify(..)? is Err
          RequestBytes(RF(USER, TRUE, "none", 600, "none"), <<>>),
          \* a Refresh request in order
          RequestBytes(RF(USER, TRUE, "none", 600, "valid"), <<>>) }

\* a client sends a datagram of the menu
ClientSendRaw(c, b) ==
    /\ Running
    /\ sentCount < MaxDatagrams
    /\ socket' = Append(socket, [addr |-> c, bytes |-> b])
    /\ sentCount' = sentCount + 1
    /\ UNCHANGED <<codec, now, nonces, allocs, received, workers>>

NextPoll ==
    \/ \E w \in Workers : Recv(w)
    \/ \E w \in Workers : Auth(w)
    \/ \E w \in Workers : Apply(w)
    \/ \E w \in Workers : SendOk(w)
    \/ \E w \in Workers : SendFail(w)
    \/ \E c \in Clients : \E b \in DatagramMenu : ClientSendRaw(c, b)
    \/ \E c \in Clients : Allocate(c)

\* the workers fed with well-formed and malformed datagrams
SpecPoll == Init /\ [][NextPoll]_vars

\* worker w takes a datagram of fewer than 4 bytes off the socket
RecvShort(w) == Recv(w) /\ Len(Head(socket).bytes) < 4

\* C23: a datagram of fewer than 4 bytes is dropped by Context::read: it is
\* not handed to the demultiplexer, nothing is sent for it, the relay state is
\* what it was and the worker is back at its next receive
C23_ShortDropped ==
    [][ \A w \in Workers :
            RecvShort(w)
                => /\ workers'[w] = [workers[w] EXCEPT !.arm = "no datagram"]
                   /\ workers'[w].pc = "read"
                   /\ workers'[w].resp = NoResp
                   /\ allocs' = allocs /\ nonces' = nonces ]_vars

\* a worker has dropped a short datagram and waits for the next one
C23_Witness ==
    \E w \in Workers :
        /\ workers[w].pc = "read"
        /\ workers[w].arm = "no datagram"
        /\ received > 0

\* worker w takes off the socket a datagram that decode_message does not
\* decode, or one of a message kind without a handler
RecvUnusable(w) ==
    /\ Recv(w)
    /\ Len(Head(socket).bytes) >= 4
    /\ LET dec == decode_message(Head(socket).bytes)
       IN  dec.status # "ok" \/ ~Handled(dec.msg)

\* the handler of worker w returns an Err at one of its awaits
HandlerErr(w) == Auth(w) /\ HandlerAuth(workers[w].addr, Request(w)).tag = "err"

\* C24: for a datagram whose decode fails, whose message kind has no handler
\* or whose handler returns an error, nothing is sent and the worker goes on
\* to its next receive
C24_DroppedSilently ==
    [][ \A w \in Workers :
            (RecvUnusable(w) \/ HandlerErr(w))
                => /\ workers'[w].pc = "read"
                   /\ workers'[w].resp = NoResp
                   /\ allocs' = allocs /\ nonces' = nonces ]_vars

\* ------------------------------------------------------------------------
\* The state's lock around the handlers' State calls (SpecLock; the lock is
\* inside state.rs, which is not part of the sources: spec 5)
\* ------------------------------------------------------------------------

\* the lock is free for worker w: no other worker is inside a State method
CanLock(w) == \A u \in Workers \ {w} : ~workers[u].holds

\* the lock kept by the caller after the State method has returned
Unlock_kept(wk) == wk

\* the State method returns and its lock guard is dropped with it
Unlock(wk) == [wk EXCEPT !.holds = FALSE]

\* the State method a handler awaits (get_auth / get_password at "auth",
\* refresh / insert_channel at "mutate") takes the lock
StateLock(w) ==
    /\ workers[w].pc \in {"auth", "mutate"}
    /\ ~workers[w].holds
    /\ CanLock(w)
    /\ workers' = [workers EXCEPT ![w].holds = TRUE]
    /\ UNCHANGED <<codec, now, nonces, allocs, socket, received, sentCount>>

\* Auth(w) under the lock: the lookup, the lock's release, and the handler
\* up to its next await
LockedAuth(w) ==
    /\ workers[w].pc = "auth"
    /\ workers[w].holds
    /\ workers' = [workers EXCEPT
            ![w] = AfterStep(Unlock(@), HandlerAuth(@.addr, Request(w)), "mutate")]
    /\ UNCHANGED <<codec, now, nonces, allocs, socket, received, sentCount>>

\* Apply(w) under the lock: the state change, the lock's release, and the
\* response
LockedApply(w) ==
    /\ workers[w].pc = "mutate"
    /\ workers[w].holds
    /\ LET wk == workers[w]
           st == HandlerApply(allocs, now, wk.addr, Request(w))
       IN  /\ allocs' = st
           /\ workers' = [workers EXCEPT
                ![w] = AfterStep([Unlock(wk) EXCEPT !.mutated = (st # allocs)],
                                 HandlerDone(allocs, now, wk.addr, Request(w)), "send")]
    /\ UNCHANGED <<codec, now, nonces, socket, received, sentCount>>

NextLock ==
    \/ \E w \in Workers : Recv(w)
    \/ \E w \in Workers : StateLock(w)
    \/ \E w \in Workers : LockedAuth(w)
    \/ \E w \in Workers : LockedApply(w)
    \/ \E w \in Workers : SendOk(w)
    \/ \E c \in Clients : \E b \in DatagramMenu : ClientSendRaw(c, b)
    \/ \E c \in Clients : Allocate(c)

\* the workers with the state's lock as a step of its own
SpecLock == Init /\ [][NextLock]_vars

\* C26: a worker that hands its response to send_to holds no lock of the
\* relay state, all its state calls being over, so that the lock is free for
\* every other worker unless a third one holds it
C26_NoLockAcrossSend ==
    \A w \in Workers :
        workers[w].pc = "send"
            => /\ ~workers[w].holds
               /\ \A v \in Workers \ {w} :
                     (\A u \in Workers \ {w, v} : ~workers[u].holds) => CanLock(v)

\* one worker is sending the success response of a request, its State calls
\* over, while another is inside a State method
C26_Witness ==
    \E w \in Workers : \E v \in Workers \ {w} :
        /\ workers[w].pc = "send"
        /\ RespIsSuccess(workers[w].resp)
        /\ workers[v].holds

\* ------------------------------------------------------------------------
\* The responses the workers send (Spec, SpecPoll)
\* ------------------------------------------------------------------------

\* the error kind of the method of a request
ErrorKindOf(m) ==
    IF m.kind = "RefreshRequest" THEN "RefreshError" ELSE "ChannelBindError"

\* C31: every rejection of a ChannelBind request is sent with the message
\* kind ChannelBindError and every rejection of a Refresh request with the
\* kind RefreshError
C31_ErrorKindOfMethod ==
    \A w \in Workers :
        (Answering(w) /\ MessageHas(workers[w].resp.msg, "ErrorAttrKind"))
            => workers[w].resp.msg.kind = ErrorKindOf(Request(w))

\* a step of a worker task (Context::poll)
WorkerStep ==
    \E w \in Workers : Recv(w) \/ Auth(w) \/ Apply(w) \/ SendOk(w) \/ SendFail(w)

\* C40: when send_to fails the server process is aborted, and from then on no
\* worker takes a step: no datagram is read, handled or answered any more
C40_AbortOnSendFailure ==
    /\ [][ \A w \in Workers : SendFail(w) => ~Running' ]_vars
    /\ [](~Running => ~ENABLED WorkerStep)
    /\ [][ ~Running => received' = received ]_vars

\* the process was aborted while a datagram a client had sent was not read
C40_Witness == ~Running /\ received < sentCount

\* ------------------------------------------------------------------------
\* The write buffer of a worker across responses (SpecWrite)
\* ------------------------------------------------------------------------

\* Context::send, send_to succeeds: the bytes sent stay in the write buffer
SendKept(w) ==
    /\ workers[w].pc = "send"
    /\ workers' = [workers EXCEPT ![w] =
            [@ EXCEPT !.pc = "read", !.msg = UNKNOWN_PAYLOAD,
                      !.resp = NoResp, !.arrival = 0, !.fresh = FALSE,
                      !.mutated = FALSE, !.prev = 0]]
    /\ UNCHANGED <<codec, now, nonces, allocs, socket, received, sentCount>>

NextWrite ==
    \/ \E w \in Workers : Recv(w)
    \/ \E w \in Workers : Auth(w)
    \/ \E w \in Workers : Apply(w)
    \/ \E w \in Workers : SendKept(w)
    \/ \E c \in Clients : \E r \in RequestMenu : ClientSend(c, r)
    \/ \E c \in Clients : Allocate(c)
    \/ \E c \in Clients : Challenge(c)

SpecWrite == Init /\ [][NextWrite]_vars

\* C32: the bytes a worker is about to send are the encoding of its response
\* and credentials alone, whatever its write buffer held before (an earlier,
\* possibly longer response); every worker has a write buffer of its own
C32_WriterReset ==
    \A w \in Workers :
        workers[w].pc = "send"
            => workers[w].writer = encode_message(workers[w].resp.msg, workers[w].resp.auth)

\* a response was encoded into a buffer that held a longer one
C32_Witness ==
    \E w \in Workers :
        /\ workers[w].pc = "send"
        /\ workers[w].prev > Len(workers[w].writer)

\* ------------------------------------------------------------------------
\* The RTMP codec: handshake, then session (SpecRtmp)
\* ------------------------------------------------------------------------

\* longest chunk read from the stream, and the number of parse calls
MaxChunk == 2

MaxParse == 3

ChunkBytes == {1, 2}

RECURSIVE SeqsUpTo(_, _)
SeqsUpTo(S, n) ==
    IF n = 0 THEN {<<>>}
    ELSE LET shorter == SeqsUpTo(S, n - 1)
         IN  shorter \cup {Append(q, x) : q \in {r \in shorter : Len(r) = n - 1}, x \in S}

Chunks == SeqsUpTo(ChunkBytes, MaxChunk)

Suffixes(b) == {SubSeq(b, i, Len(b)) : i \in 1..(Len(b) + 1)}

\* what Handshake::process may return for a buffer and leave in `completed`:
\* None, or states that give back bytes to the peer, replace the buffer by an
\* overflow or clear it.  The handshake decides by itself when it is completed.
HandshakeOutcomes(buffer) ==
    LET one == {[tag |-> "Callback"], [tag |-> "Empty"]}
               \cup {[tag |-> "Overflow", bytes |-> o] : o \in Suffixes(buffer)}
        lists == {<<>>} \cup {<<x>> : x \in one}
                 \cup {<<[tag |-> "Callback"], x>> : x \in one}
    IN  [states : lists, completed : BOOLEAN]

\* what Session::process may return: None, or callbacks and events
SessionOutcomes == {<<>>, <<[tag |-> "Callback"]>>, <<[tag |-> "Event"]>>}

\* Rtmp::process_state on the buffer
StateBuffer(state, buffer) ==
    CASE state.tag = "Overflow" -> state.bytes
      [] state.tag = "Empty" -> <<>>
      [] OTHER -> buffer

\* Rtmp::process_state: the packet of a state, if any
StatePackets(state) ==
    CASE state.tag = "Callback" -> <<"Peer">>
      [] state.tag = "Event" -> <<"Core">>
      [] OTHER -> <<>>

RECURSIVE StatesBuffer(_, _)
StatesBuffer(states, buffer) ==
    IF states = <<>> THEN buffer
    ELSE StatesBuffer(Tail(states), StateBuffer(Head(states), buffer))

RECURSIVE StatesPackets(_)
StatesPackets(states) ==
    IF states = <<>> THEN <<>>
    ELSE StatePackets(Head(states)) \o StatesPackets(Tail(states))

\* parse with the session run on every call
SessionRuns_always(variant, completed, buffer) == TRUE

\* parse: whether the session is run after the handshake part
SessionRuns(variant, completed, buffer) ==
    IF variant = "publish" THEN completed = TRUE
    ELSE completed = TRUE /\ (buffer = <<>>) = FALSE

NoFeed == [fed |-> FALSE]

\* variant: which of the two codecs ("publish": publish/src/codec/rtmp,
\* "src": src/codec/rtmp).  The fields of `last` describe the last parse call:
\* was (completed when it began), hs (the handshake processor was invoked),
\* rest (the buffer left by the handshake part), feed (what the session got)
DrawRtmp ==
    \E v \in {"publish", "src"} :
        codec = [pc |-> "rtmp", variant |-> v, completed |-> FALSE, calls |-> 0,
                 receiver |-> <<>>,
                 last |-> [was |-> FALSE, hs |-> FALSE, rest |-> <<>>, feed |-> NoFeed]]

InitRtmp ==
    /\ DrawRtmp
    /\ InitRelay

\* Codec::parse for Rtmp, one call
Parse(chunk, h, so) ==
    /\ codec.pc = "rtmp"
    /\ codec.calls < MaxParse
    /\ LET hs == codec.completed = FALSE
           completed == IF hs THEN h.completed ELSE codec.completed
           rest == IF hs THEN StatesBuffer(h.states, chunk) ELSE chunk
           first == IF hs THEN StatesPackets(h.states) ELSE <<>>
           runs == SessionRuns(codec.variant, completed, rest)
       IN  /\ hs \/ h = [states |-> <<>>, completed |-> FALSE]
           /\ runs \/ so = <<>>
           /\ codec' = [codec EXCEPT
                    !.completed = completed,
                    !.calls = @ + 1,
                    !.receiver = first \o (IF runs THEN StatesPackets(so) ELSE <<>>),
                    !.last = [was |-> codec.completed, hs |-> hs, rest |-> rest,
                              feed |-> IF runs THEN [fed |-> TRUE, bytes |-> rest]
                                       ELSE NoFeed]]

NextRtmp ==
    /\ \E chunk \in Chunks : \E h \in HandshakeOutcomes(chunk) :
            \E so \in SessionOutcomes : Parse(chunk, h, so)
    /\ UNCHANGED relayVars

SpecRtmp == InitRtmp /\ [][NextRtmp]_vars

\* the bytes the session got in the last parse call
Fed == IF codec.last.feed.fed THEN codec.last.feed.bytes ELSE <<>>

MaxMessages == 3

\* A message on the wire is a head byte and an end byte.  The head says what
\* becomes of the message: AUDIO converts and process_message returns a state
\* for it, QUIET converts and process_message returns None (SetChunkSize,
\* releaseStream), BROKEN is a complete message whose payload does not convert
\* (to_rtmp_message returns Err).
AUDIO == "audio"

QUIET == "quiet"

BROKEN == "broken"

END == "end"

WireMessage(k) == <<k, END>>

RECURSIVE Wire(_)
Wire(ks) == IF ks = <<>> THEN <<>> ELSE WireMessage(Head(ks)) \o Wire(Tail(ks))

\* the complete messages in a buffer, by their heads
RECURSIVE Complete(_)
Complete(buf) ==
    IF Len(buf) < 2 THEN <<>>
    ELSE <<buf[1]>> \o Complete(SubSeq(buf, 3, Len(buf)))

\* ChunkDeserializer::get_next_message(chunk): the chunk is appended to the
\* bytes the decoder holds, and the first complete message is taken out
get_next_message(held, chunk) ==
    LET all == held \o chunk
    IN  IF Len(all) < 2 THEN [payload |-> "none", held |-> all]
        ELSE [payload |-> all[1], held |-> SubSeq(all, 3, Len(all))]

\* Session::get_message: None when no message is complete, and None when the
\* payload does not convert (.ok())
get_message(held, chunk) ==
    LET r == get_next_message(held, chunk)
    IN  IF r.payload = "none" \/ r.payload = BROKEN
        THEN [message |-> "none", held |-> r.held]
        ELSE [message |-> r.payload, held |-> r.held]

\* Session::process_message: whether the message produces a state
process_message(message) == message = AUDIO

\* the while loop of Session::process after the decoder holds `held`, with
\* `chunk` the argument of the next get_message
RECURSIVE ProcessLoop(_, _, _, _)
ProcessLoop(held, chunk, passed, receiver) ==
    LET g == get_message(held, chunk)
    IN  IF g.message = "none"
        THEN [held |-> g.held, passed |-> passed, receiver |-> receiver]
        ELSE ProcessLoop(g.held, <<>>, Append(passed, g.message),
                         IF process_message(g.message)
                         THEN Append(receiver, g.message) ELSE receiver)

\* stream: the bytes the client has yet to send; fed: the bytes given to
\* process so far; held: the bytes in the decoder; passed: the messages
\* given to process_message so far; result: what the last call returned
DrawSession ==
    \E ks \in SeqsUpTo({AUDIO, QUIET, BROKEN}, MaxMessages) :
        codec = [pc |-> "session", stream |-> Wire(ks), fed |-> <<>>, held |-> <<>>,
                 passed |-> <<>>, produced |-> <<>>, result |-> "None", calls |-> 0]

InitSession ==
    /\ DrawSession
    /\ InitRelay

\* Session::process(buffer) on the next n bytes of the stream
SessionProcess(n) ==
    /\ codec.pc = "session"
    /\ n <= Len(codec.stream)
    /\ n > 0 \/ codec.calls = 0
    /\ LET buffer == SubSeq(codec.stream, 1, n)
           r == ProcessLoop(codec.held, buffer, <<>>, <<>>)
       IN  codec' = [codec EXCEPT
                !.stream = SubSeq(@, n + 1, Len(@)),
                !.fed = @ \o buffer,
                !.held = r.held,
                !.passed = @ \o r.passed,
                !.produced = r.receiver,
                !.result = IF r.receiver = <<>> THEN "None" ELSE "Some",
                !.calls = @ + 1]

NextSession ==
    /\ \E n \in 0..(2 * MaxMessages) : SessionProcess(n)
    /\ UNCHANGED relayVars

SpecSession == InitSession /\ [][NextSession]_vars

\* the messages of a list whose payload converts
Convertible(ks) == SelectSeq(ks, LAMBDA k : k # BROKEN)

\* C34: when process has returned, every complete message in the bytes fed
\* so far (that converts to an RtmpMessage) was given to process_message and
\* the decoder holds no complete message; the result is None exactly when no
\* message produced a state
C34_ConsumesAll ==
    (codec.pc = "session" /\ codec.calls > 0)
        => /\ codec.passed = Convertible(Complete(codec.fed))
           /\ Complete(codec.held) = <<>>
           /\ (codec.result = "None") <=> (codec.produced = <<>>)

\* ------------------------------------------------------------------------
\* The RTMP server session (SpecIngest)
\* ------------------------------------------------------------------------

\* calls of Session::process on a connection, and results per call
MaxCalls == 2

MaxResults == 2

ServerSessionEvents ==
    {"ConnectionRequested", "PublishStreamRequested", "PlayStreamRequested",
     "StreamMetadataChanged", "VideoDataReceived", "AudioDataReceived",
     "PublishStreamFinished"}

\* the results of ServerSession::handle_input
ServerSessionResults ==
    {[tag |-> "OutboundResponse"], [tag |-> "Unhandleable"]}
        \cup {[tag |-> "RaisedEvent", event |-> e] : e \in ServerSessionEvents}

\* what ServerSession::handle_input returns: Err, or results
InputOutcomes ==
    {[ok |-> FALSE]}
        \cup {[ok |-> TRUE, results |-> r] : r \in SeqsUpTo(ServerSessionResults, MaxResults)}

\* what ServerSession::accept_request returns: Err, or responses
AcceptOutcomes ==
    {[ok |-> FALSE]}
        \cup {[ok |-> TRUE, results |-> r] : r \in {<<>>, <<[tag |-> "OutboundResponse"]>>}}

\* what ServerSession::new returns beside the session
NewOutcomes ==
    {<<[tag |-> "OutboundResponse"]>>,
     <<[tag |-> "OutboundResponse"], [tag |-> "OutboundResponse"]>>,
     <<[tag |-> "OutboundResponse"], [tag |-> "Unhandleable"]>>}

\* Session::process keeping self.results after they were sent
TakeResults_kept(results) == results

\* Session::process: self.results = None
TakeResults(results) == [some |-> FALSE]

\* event_audio_video_data_received forwarding whatever the action is
Forwards_always(current_action) == TRUE

\* event_audio_video_data_received: match &self.current_action
Forwards(current_action) == current_action = "Publishing"

\* unbounded_send(..).unwrap(): the message goes into the channel, or the
\* task panics when the receiver is gone.  `closing` is the number of the
\* send of this call after which the receiver is found dropped (0: none).
sender_socket(st, tag, initial) ==
    IF st.pc = "panicked" THEN st
    ELSE IF ~st.open THEN [st EXCEPT !.pc = "panicked"]
    ELSE [st EXCEPT !.sent = Append(@, [tag |-> tag, initial |-> initial,
                                        action |-> st.current_action,
                                        call |-> st.calls]),
                    !.sends = @ + 1,
                    !.open = (st.sends + 1 # st.closing)]

\* session_result on the responses of accept_request
RECURSIVE SendResponses(_, _)
SendResponses(st, results) ==
    IF results = <<>> THEN st
    ELSE SendResponses(
            IF Head(results).tag = "OutboundResponse"
            THEN sender_socket(st, "Raw", FALSE) ELSE st,
            Tail(results))

\* Session::accept_request
accept_request(st, acc) ==
    IF st.pc = "panicked" \/ ~acc.ok THEN st ELSE SendResponses(st, acc.results)

\* Session::event_audio_video_data_received
event_audio_video_data_received(st, tag) ==
    IF st.pc = "panicked" THEN st
    ELSE IF Forwards(st.current_action) THEN sender_socket(st, tag, FALSE)
    ELSE [st EXCEPT !.dropped = TRUE]

\* Session::events_match
events_match(st, event, acc) ==
    IF st.pc = "panicked" THEN st
    ELSE CASE event = "ConnectionRequested" -> accept_request(st, acc)
           [] event = "PublishStreamRequested" ->
                accept_request([st EXCEPT !.current_action = "Publishing"], acc)
           [] event = "PlayStreamRequested" ->
                IF st.variant = "session" THEN sender_socket(st, "Pull", FALSE) ELSE st
           [] event = "StreamMetadataChanged" ->
                IF st.variant = "session" THEN sender_socket(st, "Metadata", FALSE)
                ELSE IF st.current_action = "Publishing"
                     THEN sender_socket(st, "Crated", FALSE) ELSE st
           [] event = "VideoDataReceived" -> event_audio_video_data_received(st, "Video")
           [] event = "AudioDataReceived" -> event_audio_video_data_received(st, "Audio")
           [] OTHER -> st

\* Session::session_result
RECURSIVE session_result(_, _, _)
session_result(st, results, acc) ==
    IF results = <<>> THEN st
    ELSE LET r == Head(results)
             next == CASE r.tag = "OutboundResponse" -> sender_socket(st, "Raw", FALSE)
                       [] r.tag = "RaisedEvent" -> events_match(st, r.event, acc)
                       [] OTHER -> st
         IN  session_result(next, Tail(results), acc)

\* Session::process, the responses kept from the construction
RECURSIVE SendInitial(_, _)
SendInitial(st, results) ==
    IF results = <<>> THEN st
    ELSE SendInitial(
            IF Head(results).tag = "OutboundResponse"
            THEN sender_socket(st, "Raw", TRUE) ELSE st,
            Tail(results))

\* Session::new.  variant: "session" (src/session.rs) or "rtmp"
\* (src/rtmp/session.rs).  sent: the messages put into the sender channel,
\* each with the action and the call of process at the time; dropped: a
\* media event was not forwarded
DrawIngest ==
    \E v \in {"session", "rtmp"} : \E new \in NewOutcomes :
        codec = [pc |-> "ingest", variant |-> v,
                 results |-> [some |-> TRUE, list |-> new], created |-> new,
                 current_action |-> "Waiting", sent |-> <<>>, calls |-> 0,
                 sends |-> 0, closing |-> 0, open |-> TRUE, dropped |-> FALSE]

InitIngest ==
    /\ DrawIngest
    /\ InitRelay

\* Session::process(bytes), with `input` what handle_input returns for the bytes
IngestProcess(input, acc, closing) ==
    /\ codec.pc = "ingest"
    /\ codec.calls < MaxCalls
    /\ LET st0 == [codec EXCEPT !.calls = @ + 1, !.sends = 0, !.closing = closing]
           st1 == IF ~st0.results.some THEN st0
                  ELSE LET s1 == SendInitial(st0, st0.results.list)
                       IN  IF s1.pc = "panicked" THEN s1
                           ELSE [s1 EXCEPT !.results = TakeResults(@)]
           st2 == IF st1.pc = "panicked" \/ ~input.ok THEN st1
                  ELSE session_result(st1, input.results, acc)
       IN  codec' = [st2 EXCEPT !.sends = 0, !.closing = 0]

NextIngest ==
    /\ \E input \in InputOutcomes :
            \E acc \in AcceptOutcomes : \E closing \in 0..2 :
                IngestProcess(input, acc, closing)
    /\ UNCHANGED relayVars

SpecIngest == InitIngest /\ [][NextIngest]_vars

IsMedia(entry) == entry.tag \in {"Audio", "Video"}

\* C35: every audio or video message in the sender channel was sent while
\* the action was Publishing, and the action never goes back from Publishing
C35_MediaOnlyWhilePublishing ==
    /\ [](codec.pc \in {"ingest", "panicked"}
            => \A i \in 1..Len(codec.sent) :
                    IsMedia(codec.sent[i]) => codec.sent[i].action = "Publishing")
    /\ [][ (codec.pc = "ingest" /\ codec.current_action = "Publishing")
                => codec'.current_action = "Publishing" ]_vars

\* media was dropped while Waiting and media was forwarded while Publishing
C35_Witness ==
    /\ codec.pc = "ingest"
    /\ codec.dropped
    /\ \E i \in 1..Len(codec.sent) : IsMedia(codec.sent[i])

\* the responses of the construction that are to be sent
CreatedResponses == SelectSeq(codec.created, LAMBDA r : r.tag = "OutboundResponse")

\* the first call of process panicked
FirstCallPanicked == codec.pc = "panicked" /\ codec.calls = 1

MaxReads == 2

MaxData == 2

\* the data of a Tcp packet of n bytes
TcpData(n) == [i \in 1..n |-> 200 + i]

\* what codec.parse may return for a chunk: packets for the peer and for the
\* datagram channel (by the number of chunks Transport::packet cuts them into)
PacketMenu ==
    LET tcp == {[tag |-> "Tcp", data |-> TcpData(n)] : n \in 0..MaxData}
        udp == {[tag |-> "Udp", chunks |-> n] : n \in 1..2}
    IN  {<<>>} \cup {<<x>> : x \in tcp \cup udp}
        \cup {<<x, y>> : x \in tcp, y \in udp}

\* pc: where the task is.  "parked": poll has returned; "reading": at the
\* head of the while loop of process; "packets": in the for loop over the
\* packets; "sending", "pushing", "flushing": in the loop of send, push, flush.
\* output: what the last poll returned; wake: the task is scheduled;
\* waiting: the last read registered the task for readiness; eof: a read
\* yielded 0 bytes; peer, stream, rx: the client, the TCP stream ("ready",
\* "pending": its send buffer is full, "error": the connection is broken) and
\* the receiver of the datagram channel; accepted: the bytes the
\* stream took in the current send; done: data and accepted bytes of the
\* last send that returned; pushed: datagrams put into the channel
InitSocket ==
    /\ codec = [pc |-> "parked", output |-> "none", wake |-> TRUE, waiting |-> FALSE,
                eof |-> FALSE, peer |-> "open", stream |-> "ready", rx |-> "alive",
                reads |-> 0, packets |-> <<>>, data |-> <<>>, offset |-> 0,
                accepted |-> <<>>, done |-> [data |-> <<>>, accepted |-> <<>>],
                chunks |-> 0, pushed |-> 0]
    /\ InitRelay

\* Future::poll of a Socket: what it returns after process
FuturePoll == "Pending"

\* the runtime polls the task
Poll ==
    /\ codec.pc = "parked"
    /\ codec.wake
    /\ codec.output # "Ready"
    /\ codec' = [codec EXCEPT !.pc = "reading", !.wake = FALSE]
    /\ UNCHANGED relayVars

\* Socket::read returns a chunk and codec.parse its packets
ReadChunk(ps) ==
    /\ codec.pc = "reading"
    /\ codec.peer = "open"
    /\ codec.stream # "error"
    /\ codec.reads < MaxReads
    /\ codec' = [codec EXCEPT !.pc = "packets", !.packets = ps, !.reads = @ + 1]
    /\ UNCHANGED relayVars

\* Socket::read returns None (Pending, 0 bytes or an error): the while loop
\* of process ends and poll returns
ReadNone ==
    /\ codec.pc = "reading"
    /\ codec' = [codec EXCEPT !.pc = "parked", !.output = FuturePoll,
                              !.waiting = (codec.peer = "open" /\ codec.stream # "error"),
                              !.eof = (codec.peer = "closed" /\ codec.stream # "error")]
    /\ UNCHANGED relayVars

\* Socket::process: the next packet of the chunk, or the flush behind them
NextPacket ==
    /\ codec.pc = "packets"
    /\ IF codec.packets = <<>>
       THEN codec' = [codec EXCEPT !.pc = "flushing"]
       ELSE LET p == Head(codec.packets)
            IN  IF p.tag = "Tcp"
                THEN codec' = [codec EXCEPT !.pc = "sending", !.packets = Tail(@),
                                           !.data = p.data, !.offset = 0,
                                           !.accepted = <<>>]
                ELSE codec' = [codec EXCEPT !.pc = "pushing", !.packets = Tail(@),
                                           !.chunks = p.chunks]
    /\ UNCHANGED relayVars

\* the slice Socket::send hands to poll_write
WriteSlice(data, offset) == data

\* Socket::send, one turn of its loop: poll_write takes s bytes of the slice,
\* or returns Pending or an error and the loop turns again
SendStep(s) ==
    /\ codec.pc = "sending"
    /\ IF codec.stream = "ready"
       THEN LET slice == WriteSlice(codec.data, codec.offset)
                length == Len(codec.data)
                taken == codec.accepted \o SubSeq(slice, 1, s)
            IN  /\ s <= Len(slice)
                /\ s > 0 \/ slice = <<>>
                /\ IF codec.offset + s >= length
                   THEN codec' = [codec EXCEPT !.pc = "packets", !.accepted = taken,
                                    !.done = [data |-> codec.data, accepted |-> taken]]
                   ELSE codec' = [codec EXCEPT !.offset = @ + s, !.accepted = taken]
       ELSE s = 0 /\ codec' = codec
    /\ UNCHANGED relayVars

\* Socket::push, one turn of its inner loop: the chunk goes into the channel,
\* or send returns Err and the loop turns again
PushStep ==
    /\ codec.pc = "pushing"
    /\ IF codec.rx = "alive"
       THEN codec' = [codec EXCEPT !.pushed = @ + 1, !.chunks = @ - 1,
                                  !.pc = IF codec.chunks = 1 THEN "packets" ELSE "pushing"]
       ELSE codec' = codec
    /\ UNCHANGED relayVars

\* Socket::flush, one turn of its loop
FlushStep ==
    /\ codec.pc = "flushing"
    /\ IF codec.stream = "ready"
       THEN codec' = [codec EXCEPT !.pc = "reading"]
       ELSE codec' = codec
    /\ UNCHANGED relayVars

\* the steps of the task
SocketTask ==
    \/ Poll
    \/ \E ps \in PacketMenu : ReadChunk(ps)
    \/ ReadNone
    \/ NextPacket
    \/ \E s \in 0..MaxData : SendStep(s)
    \/ PushStep
    \/ FlushStep

\* the stream becomes readable (data or the end of the stream): the task
\* that waits for it is scheduled
Readable ==
    /\ codec.waiting
    /\ codec' = [codec EXCEPT !.waiting = FALSE, !.wake = TRUE]
    /\ UNCHANGED relayVars

\* the peer closes the connection
PeerClose ==
    /\ codec.peer = "open"
    /\ codec' = [codec EXCEPT !.peer = "closed"]
    /\ UNCHANGED relayVars

\* the send buffer of the stream fills up, drains, or the connection breaks
StreamChange(to) ==
    /\ codec.stream # "error"
    /\ codec.stream # to
    /\ codec' = [codec EXCEPT !.stream = to]
    /\ UNCHANGED relayVars

\* the datagram task ends and drops the receiver of the channel
ReceiverDrop ==
    /\ codec.rx = "alive"
    /\ codec' = [codec EXCEPT !.rx = "dropped"]
    /\ UNCHANGED relayVars

NextSocket ==
    \/ SocketTask
    \/ Readable
    \/ PeerClose
    \/ \E to \in {"ready", "pending", "error"} : StreamChange(to)
    \/ ReceiverDrop

SpecSocket == InitSocket /\ [][NextSocket]_vars

\* the task runs whenever it can: its loops do not yield, and the runtime
\* polls a scheduled task
SpecSocketLive == SpecSocket /\ WF_vars(SocketTask)

\* C37: when send has returned, the bytes the stream accepted are the data,
\* each byte once and in order
C37_SendWritesOnce ==
    codec.pc \in {"parked", "reading", "packets", "sending", "pushing", "flushing"}
        => codec.done.accepted = codec.done.data

\* C38: push, send and flush return: the task leaves each of their loops
C38_LoopsTerminate ==
    /\ (codec.pc = "pushing") ~> (codec.pc # "pushing")
    /\ (codec.pc = "sending") ~> (codec.pc # "sending")
    /\ (codec.pc = "flushing") ~> (codec.pc # "flushing")

\* C39: after a read has yielded 0 bytes the task completes: a poll returns Ready
C39_TaskCompletes == codec.eof ~> (codec.output = "Ready")

====
